---- MODULE Spec2Model ----
(***************************************************************************)
(* Rendering core of ratzilla: the canvas backend (change detection,       *)
(* background batching, flush), the WebGl2 backend adapter and the DOM     *)
(* backend, each as a state machine over the backend's fields.             *)
(***************************************************************************)
EXTENDS Integers, Sequences, FiniteSets, TLC

VARIABLES
    \* ---- CanvasBackend (src/src/backend/canvas.rs) ----
    buffer,           \* Vec<Vec<Cell>>: current buffer, buffer[y+1][x+1]
    prev_buffer,      \* Vec<Vec<Cell>>: previous buffer
    changed_cells,    \* BitVec: changed_cells[index+1]
    initialized,      \* bool
    cursor_position,  \* Option<Position>
    cursor_shape,     \* CursorShape
    debug_mode,       \* Option<String>
    drawn,            \* what draw last wrote into each cell (history of the content)
    cursor_shown,     \* draw wrote the cursor style into the cursor's cell
    ctx_ops,          \* calls issued on the 2D context by the last backend call
    cv_call,          \* last CanvasBackend method called
    cv_result,        \* its result: "Ok" or "Err"
    \* ---- one row of draw_background with its RowColorOptimizer ----
    row_colors,       \* resolved background colour of each cell of the row
    row_dirty,        \* changed_cells bit of each cell of the row
    row_y,            \* the row's index
    row_x,            \* next column of the traversal
    pending_region,   \* RowColorOptimizer::pending_region
    row_emitted,      \* regions handed to draw_region so far
    row_done,         \* the row's final flush has run
    \* ---- WebGl2Backend (src/src/backend/webgl2.rs) ----
    gl_grid,                  \* the renderer's terminal grid: gl_grid[y+1][x+1] is a CellData
    gl_cursor_position,       \* Option<Position>
    gl_cursor_shape,          \* options.cursor_shape
    gl_selection,             \* options.mouse_selection_mode.is_some()
    gl_measure,               \* performance.is_some()
    gl_hyperlink_callback,    \* hyperlink_callback.is_some()
    gl_hyperlink_state,       \* Option<PendingHyperlinkEvent>
    gl_cursor_over_hyperlink, \* bool
    gl_canvas_cursor,         \* the cursor property of the canvas element's style
    gl_display_size,          \* the canvas's CSS display size
    gl_stored_size,           \* the renderer's stored canvas size
    gl_renderer_calls,        \* calls made to the renderer by the last backend call
    gl_perf_calls,            \* calls made to the Performance API by the last backend call
    gl_perf_results,          \* what those calls returned, each discarded by unwrap_or_default
    gl_style_writes,          \* the cursor values this call wrote to the canvas's style
    gl_callback_urls,         \* urls the hyperlink callback was invoked with by the last call
    gl_uploaded,              \* cells were uploaded to the renderer since the last flush
    gl_flushed_updates,       \* the last flush found cells uploaded since the flush before it
    gl_link_releases,         \* history: url under each button-0 release over a url, in order
    gl_link_callbacks,        \* history: url of each invocation of the hyperlink callback
    gl_call,                  \* last WebGl2Backend method or handler run
    gl_result,                \* its result
    \* ---- DomBackend (src/src/backend/dom.rs) ----
    dom_initialized,          \* Rc<RefCell<bool>>, shared with the resize listener
    dom_cells,                \* Vec<Element>: the cell elements, in row-major order
    dom_size,                 \* Size: the grid size the elements were made for
    dom_window_size,          \* what utils::get_size() returns now
    dom_attached,             \* the document holds an element with the grid's id
    dom_cursor_position,      \* Option<Position>
    dom_last_cursor_position, \* Option<Position>
    dom_cursor_shape,         \* options.cursor_shape
    dom_content,              \* the content the last call of draw was given
    dom_call,                 \* last DomBackend method or handler run
    dom_result,               \* its result
    \* ---- into_glyph_bits applied to modifiers (src/src/backend/webgl2.rs) ----
    glyph_m1,                 \* a Modifier, as the set of its flags
    glyph_m2,                 \* a second Modifier
    glyph_bits,               \* Option: the bits of m1, of m2 and of their union
    \* ---- mouse_to_grid_coords (src/src/backend/event_callback.rs) ----
    mouse_config,             \* MouseConfig: grid_width, grid_height, offset, cell_dimensions
    mouse_event,              \* the event's client_x and client_y
    mouse_rect,               \* element.get_bounding_client_rect(): left, top, width, height
    mouse_coords,             \* Option: the (col, row) returned
    \* ---- user mouse handler of WebGl2Backend (src/src/backend/webgl2.rs) ----
    user_mouse_handler,       \* _user_mouse_handler: Option, the callback the handler wraps
    canvas_listeners,         \* callbacks whose handler has listeners attached to the canvas
    callbacks_invoked,        \* callbacks run by the last mouse event, in order
    handler_count,            \* number of on_mouse_event calls made
    handler_call,             \* last operation run
    handler_result,           \* its result
    \* ---- listeners of EventCallback and of DomBackend ----
    element_listeners,        \* <<event type, closure>> pairs attached to the element
    event_callbacks,          \* per closure created: its event_types and whether its
                              \* EventCallback is live, was dropped, or was never built
    closure_count,            \* number of closures created
    window_onresize,          \* window.onresize: Option, the backend whose closure it holds
    dom_backends,             \* DomBackend values not yet discarded
    backend_count,            \* number of DomBackend values constructed
    \* ---- draw_symbols against a 2D context (src/src/backend/canvas.rs) ----
    fg_buffer,                \* the buffer the foreground pass walks
    fg_changed,               \* changed_cells
    fg_clip,                  \* always_clip_cells
    fg_calls,                 \* context calls of the pass not yet made
    fg_call,                  \* Option: the context call made last
    fg_ctx,                   \* the context's drawing state, saved states and path
    fg_state,                 \* "input" before draw_symbols runs, "drawing" after
    \* ---- the element index of the DOM backend (src/src/backend/dom.rs) ----
    addr_size,                \* <<width, height>> of the grid
    addr_pos,                 \* [x, y]: the cell addressed
    addr_overflow_checks,     \* whether the build checks integer overflow
    addr_call,                \* None, or [name, cell_position] of the call made
    \* ---- From<web_sys::WheelEvent> for MouseEvent (src/src/event.rs) ----
    wheel_delta_mode,         \* the event's delta_mode()
    wheel_delta_x,            \* delta_x() in tenths
    wheel_delta_y,            \* delta_y() in tenths
    wheel_event,              \* None, or the MouseEventKind converted to
    \* ---- number of backend calls made so far ----
    calls

canvasVars == <<buffer, prev_buffer, changed_cells, initialized, cursor_position,
                cursor_shape, debug_mode, drawn, cursor_shown, ctx_ops, cv_call, cv_result>>
rowVars == <<row_colors, row_dirty, row_y, row_x, pending_region, row_emitted, row_done>>
glVars == <<gl_grid, gl_cursor_position, gl_cursor_shape, gl_selection, gl_measure,
            gl_hyperlink_callback, gl_hyperlink_state, gl_cursor_over_hyperlink,
            gl_canvas_cursor, gl_display_size, gl_stored_size, gl_renderer_calls,
            gl_perf_calls, gl_perf_results, gl_style_writes, gl_callback_urls, gl_uploaded,
            gl_flushed_updates,
            gl_link_releases, gl_link_callbacks, gl_call, gl_result>>
domVars == <<dom_initialized, dom_cells, dom_size, dom_window_size, dom_attached,
             dom_cursor_position, dom_last_cursor_position, dom_cursor_shape, dom_content,
             dom_call, dom_result>>
glyphVars == <<glyph_m1, glyph_m2, glyph_bits>>
mouseVars == <<mouse_config, mouse_event, mouse_rect, mouse_coords>>
handlerVars == <<user_mouse_handler, canvas_listeners, callbacks_invoked, handler_count,
                 handler_call, handler_result>>
listenerVars == <<element_listeners, event_callbacks, closure_count, window_onresize,
                  dom_backends, backend_count>>
fgVars == <<fg_buffer, fg_changed, fg_clip, fg_calls, fg_call, fg_ctx, fg_state>>
eventVars == <<mouseVars, handlerVars, listenerVars>>
backendVars == <<canvasVars, rowVars, glVars, domVars, glyphVars, calls>>
addrVars == <<addr_size, addr_pos, addr_overflow_checks, addr_call>>
wheelVars == <<wheel_delta_mode, wheel_delta_x, wheel_delta_y, wheel_event>>
pureVars == <<fgVars, addrVars, wheelVars>>
vars == <<backendVars, eventVars, pureVars>>
nonCanvasVars == <<rowVars, glVars, domVars, glyphVars, eventVars, pureVars>>
nonRowVars == <<canvasVars, glVars, domVars, glyphVars, eventVars, pureVars, calls>>
nonGlVars == <<canvasVars, rowVars, domVars, glyphVars, eventVars, pureVars>>
nonDomVars == <<canvasVars, rowVars, glVars, glyphVars, eventVars, pureVars>>
nonGlyphVars == <<canvasVars, rowVars, glVars, domVars, eventVars, pureVars, calls>>
nonMouseVars == <<backendVars, handlerVars, listenerVars, pureVars>>
nonHandlerVars == <<backendVars, mouseVars, listenerVars, pureVars>>
nonListenerVars == <<backendVars, mouseVars, handlerVars, pureVars>>
nonFgVars == <<backendVars, eventVars, addrVars, wheelVars>>
nonAddrVars == <<backendVars, eventVars, fgVars, wheelVars>>
nonWheelVars == <<backendVars, eventVars, fgVars, addrVars>>

(***************************************************************************)
(* Bounds of the model.                                                    *)
(***************************************************************************)
Width == 2
Height == 2
MaxContent == 1
MaxCalls == 4
MaxRowLen == 5
MaxDomCalls == 6
MaxHandlerCalls == 4
MaxClosures == 2
MaxBackends == 2

(***************************************************************************)
(* Program constants.                                                      *)
(***************************************************************************)
CELL_WIDTH == 10
CELL_HEIGHT == 19
TRANSLATE == 5

(***************************************************************************)
(* Option<T>: None is the empty sequence, Some(v) the one-element one.     *)
(***************************************************************************)
None == <<>>
Some(v) == <<v>>
IsSome(o) == Len(o) > 0
Unwrap(o) == o[1]

(***************************************************************************)
(* Cells.  A cell is its symbol, colours and modifier set; equality of     *)
(* cells is equality of all four.                                          *)
(***************************************************************************)
NewCell(sym, fg, bg, m) == [fg |-> fg, bg |-> bg, symbol |-> sym, modifier |-> m]
DefaultCell == NewCell(" ", "Reset", "Reset", {})

\* The cells the layout library hands to draw in this model.
DrawCells ==
    { DefaultCell,
      NewCell("a", "Green", "Red", {}),
      NewCell("e'", "Red", "Green", {"REVERSED"}),
      NewCell("b", "Green", "Reset", {"UNDERLINED"}) }

IsAscii(sym) == sym \in {" ", "a", "b", "_"}

Positions == { [x |-> x, y |-> y] : x \in 0..(Width - 1), y \in 0..(Height - 1) }

BlankGrid(w, h) == [y \in 1..h |-> [x \in 1..w |-> DefaultCell]]

\* utils::get_sized_buffer_from_canvas: a blank buffer of the canvas's size.
get_sized_buffer_from_canvas == BlankGrid(Width, Height)

\* utils::get_sized_buffer: a blank buffer.  The function is given no canvas:
\* its size is the one the window has room for, in cells.
get_sized_buffer(window) == BlankGrid(window[1], window[2])

\* The window that a canvas of the grid's size fills.
CanvasWindow == <<Width, Height>>

\* Windows the page may have: the canvas fills it, or leaves a column free.
WindowSizes == {CanvasWindow, <<Width + 1, Height>>}

\* color::actual_bg_color / actual_fg_color: REVERSED swaps the two colours.
actual_bg_color(cell) == IF "REVERSED" \in cell.modifier THEN cell.fg ELSE cell.bg
actual_fg_color(cell) == IF "REVERSED" \in cell.modifier THEN cell.bg ELSE cell.fg

\* utils::get_canvas_color: the CSS colour, the fallback standing in for Reset.
get_canvas_color(color, fallback) == IF color = "Reset" THEN fallback ELSE color

(***************************************************************************)
(* CursorShape::show / hide, applied through Cell::style and set_style:    *)
(* the colours are written back unchanged, add_modifier is inserted and    *)
(* sub_modifier removed.                                                   *)
(***************************************************************************)
CursorShapes == {"SteadyBlock", "SteadyUnderScore", "None"}

CursorShape_show(shape, cell) ==
    CASE shape = "SteadyBlock" -> [cell EXCEPT !.modifier = @ \cup {"REVERSED"}]
      [] shape = "SteadyUnderScore" -> [cell EXCEPT !.modifier = @ \cup {"UNDERLINED"}]
      [] OTHER -> cell

CursorShape_hide(shape, cell) ==
    CASE shape = "SteadyBlock" -> [cell EXCEPT !.modifier = @ \ {"REVERSED"}]
      [] shape = "SteadyUnderScore" -> [cell EXCEPT !.modifier = @ \ {"UNDERLINED"}]
      [] OTHER -> cell

(***************************************************************************)
(* Calls on the CanvasRenderingContext2d, as records.                      *)
(***************************************************************************)
Op(o, x, y, w, h, s) == [op |-> o, x |-> x, y |-> y, w |-> w, h |-> h, s |-> s]
Op0(o) == Op(o, 0, 0, 0, 0, "")

\* The context calls that return a Result (used with `?` in the code).
Fallible(o) == o.op \in {"translate", "fill_text"}

(***************************************************************************)
(* RowColorOptimizer.                                                      *)
(***************************************************************************)
Rect_new(x, y, w, h) == [x |-> x, y |-> y, width |-> w, height |-> h]

\* process_color that starts the new region without returning the old one.
process_color_drops_region(pending, pos, color) ==
    IF IsSome(pending) /\ Unwrap(pending).color = color
    THEN [pending |-> Some([rect |-> [Unwrap(pending).rect EXCEPT !.width = @ + 1],
                            color |-> color]),
          out |-> None]
    ELSE [pending |-> Some([rect |-> Rect_new(pos[1], pos[2], 1, 1), color |-> color]),
          out |-> None]

\* RowColorOptimizer::process_color: the new pending region and the region
\* returned for drawing, if any.
process_color(pending, pos, color) ==
    IF IsSome(pending)
    THEN IF Unwrap(pending).color = color
         THEN [pending |-> Some([rect |-> [Unwrap(pending).rect EXCEPT !.width = @ + 1],
                                 color |-> color]),
               out |-> None]
         ELSE [pending |-> Some([rect |-> Rect_new(pos[1], pos[2], 1, 1), color |-> color]),
               out |-> pending]
    ELSE [pending |-> Some([rect |-> Rect_new(pos[1], pos[2], 1, 1), color |-> color]),
          out |-> None]

\* flush that returns the pending region without taking it.
optimizer_flush_keeps_pending(pending) == [pending |-> pending, out |-> pending]

\* RowColorOptimizer::flush: take() of the pending region.
optimizer_flush(pending) == [pending |-> None, out |-> pending]

(***************************************************************************)
(* CanvasBackend: the passes of update_grid.  Each pass yields the         *)
(* sequence of context calls it issues when no call fails.                 *)
(***************************************************************************)
always_clip_cells == FALSE

background_color == "Black"

\* resolve_changed_cells: the inner loop over one line, with the running index.
RECURSIVE resolve_line(_, _, _, _, _, _)
resolve_line(line, prev_line, x, index, changed, force_redraw) ==
    IF x >= Len(line) THEN changed
    ELSE resolve_line(line, prev_line, x + 1, index + 1,
                      [changed EXCEPT ![index + 1] = force_redraw \/ line[x + 1] # prev_line[x + 1]],
                      force_redraw)

RECURSIVE resolve_lines(_, _, _, _, _, _)
resolve_lines(buf, prev, y, index, changed, force_redraw) ==
    IF y >= Len(buf) THEN changed
    ELSE resolve_lines(buf, prev, y + 1, index + Len(buf[y + 1]),
                       resolve_line(buf[y + 1], prev[y + 1], 0, index, changed, force_redraw),
                       force_redraw)

\* resolve_changed_cells whose index restarts at every line.
resolve_changed_cells_line_index(buf, prev, changed, force_redraw) ==
    [i \in 1..Len(changed) |->
        IF i <= Len(buf[1])
        THEN force_redraw \/ (\E y \in 1..Len(buf) : buf[y][i] # prev[y][i])
        ELSE changed[i]]

resolve_changed_cells(buf, prev, changed, force_redraw) ==
    resolve_lines(buf, prev, 0, 0, changed, force_redraw)

\* The draw_region closure of draw_background: one fill per region.
draw_region(region, bg) ==
    << Op("set_fill_style", 0, 0, 0, 0, get_canvas_color(region.color, bg)),
       Op("fill_rect", region.rect.x * CELL_WIDTH, region.rect.y * CELL_HEIGHT,
          region.rect.width * CELL_WIDTH, region.rect.height * CELL_HEIGHT, "") >>

\* Option::map(draw_region)
map_draw_region(out, bg) == IF IsSome(out) THEN draw_region(Unwrap(out), bg) ELSE <<>>

\* draw_background: one line, from column x, with the line's optimizer state.
RECURSIVE background_line(_, _, _, _, _, _, _)
background_line(line, y, x, index, changed, pending, bg) ==
    IF x >= Len(line) THEN map_draw_region(optimizer_flush(pending).out, bg)
    ELSE LET r == IF changed[index + 1]
                  THEN process_color(pending, <<x, y>>, actual_bg_color(line[x + 1]))
                  ELSE optimizer_flush(pending)
         IN map_draw_region(r.out, bg)
            \o background_line(line, y, x + 1, index + 1, changed, r.pending, bg)

RECURSIVE background_lines(_, _, _, _, _)
background_lines(buf, y, index, changed, bg) ==
    IF y >= Len(buf) THEN <<>>
    ELSE background_line(buf[y + 1], y, 0, index, changed, None, bg)
         \o background_lines(buf, y + 1, index + Len(buf[y + 1]), changed, bg)

draw_background(buf, changed, bg) ==
    <<Op0("save")>> \o background_lines(buf, 0, 0, changed, bg) \o <<Op0("restore")>>

\* The cells of the buffer in traversal order: entry index+1 is cell number index.
RECURSIVE cells_in_order(_, _)
cells_in_order(buf, y) ==
    IF y >= Len(buf) THEN <<>>
    ELSE [i \in 1..Len(buf[y + 1]) |-> [x |-> i - 1, y |-> y, cell |-> buf[y + 1][i]]]
         \o cells_in_order(buf, y + 1)

\* The loop body that keeps last_color across a clipped cell.
RECURSIVE symbols_from_keeps_last_color(_, _, _, _, _)
symbols_from_keeps_last_color(cells, index, changed, clip, last_color) ==
    IF index >= Len(cells) THEN <<>>
    ELSE LET c == cells[index + 1]
             color == actual_fg_color(c.cell)
             text == Op("fill_text", c.x * CELL_WIDTH, c.y * CELL_HEIGHT, 0, 0, c.cell.symbol)
             style == Op("set_fill_style", 0, 0, 0, 0, get_canvas_color(color, "White"))
         IN IF ~changed[index + 1] \/ c.cell.symbol = " "
            THEN symbols_from_keeps_last_color(cells, index + 1, changed, clip, last_color)
            ELSE IF clip \/ ~IsAscii(c.cell.symbol)
            THEN << Op0("restore"), Op0("save"), Op0("begin_path"),
                    Op("rect", c.x * CELL_WIDTH, c.y * CELL_HEIGHT, CELL_WIDTH, CELL_HEIGHT, ""),
                    Op0("clip"), style, text >>
                 \o symbols_from_keeps_last_color(cells, index + 1, changed, clip, last_color)
            ELSE IF last_color # Some(color)
            THEN << Op0("restore"), Op0("save"), style, text >>
                 \o symbols_from_keeps_last_color(cells, index + 1, changed, clip, Some(color))
            ELSE <<text>>
                 \o symbols_from_keeps_last_color(cells, index + 1, changed, clip, last_color)

\* draw_symbols: the loop body from cell number index on, last_color carried along.
RECURSIVE symbols_from(_, _, _, _, _)
symbols_from(cells, index, changed, clip, last_color) ==
    IF index >= Len(cells) THEN <<>>
    ELSE LET c == cells[index + 1]
             color == actual_fg_color(c.cell)
             text == Op("fill_text", c.x * CELL_WIDTH, c.y * CELL_HEIGHT, 0, 0, c.cell.symbol)
             style == Op("set_fill_style", 0, 0, 0, 0, get_canvas_color(color, "White"))
         IN IF ~changed[index + 1] \/ c.cell.symbol = " "
            THEN symbols_from(cells, index + 1, changed, clip, last_color)
            ELSE IF clip \/ ~IsAscii(c.cell.symbol)
            THEN << Op0("restore"), Op0("save"), Op0("begin_path"),
                    Op("rect", c.x * CELL_WIDTH, c.y * CELL_HEIGHT, CELL_WIDTH, CELL_HEIGHT, ""),
                    Op0("clip"), style, text >>
                 \o symbols_from(cells, index + 1, changed, clip, None)
            ELSE IF last_color # Some(color)
            THEN << Op0("restore"), Op0("save"), style, text >>
                 \o symbols_from(cells, index + 1, changed, clip, Some(color))
            ELSE <<text>> \o symbols_from(cells, index + 1, changed, clip, last_color)

\* draw_symbols that draws every cell's glyph, changed or not.
draw_symbols_ignores_changed(buf, changed, clip) ==
    <<Op0("save")>>
    \o symbols_from(cells_in_order(buf, 0), 0, [i \in 1..Len(changed) |-> TRUE], clip, None)
    \o <<Op0("restore")>>

draw_symbols(buf, changed, clip) ==
    <<Op0("save")>> \o symbols_from(cells_in_order(buf, 0), 0, changed, clip, None)
    \o <<Op0("restore")>>

\* draw_cursor: an underscore over an underlined cursor cell.
draw_cursor(buf, cursor) ==
    IF IsSome(cursor)
    THEN LET pos == Unwrap(cursor)
             cell == buf[pos.y + 1][pos.x + 1]
         IN IF "UNDERLINED" \in cell.modifier
            THEN << Op0("save"),
                    Op("fill_text", pos.x * CELL_WIDTH, pos.y * CELL_HEIGHT, 0, 0, "_"),
                    Op0("restore") >>
            ELSE <<>>
    ELSE <<>>

\* draw_debug: every cell's rectangle stroked in the debug colour.
RECURSIVE debug_from(_, _, _)
debug_from(cells, index, color) ==
    IF index >= Len(cells) THEN <<>>
    ELSE << Op("set_stroke_style", 0, 0, 0, 0, color),
            Op("stroke_rect", cells[index + 1].x * CELL_WIDTH, cells[index + 1].y * CELL_HEIGHT,
               CELL_WIDTH, CELL_HEIGHT, "") >>
         \o debug_from(cells, index + 1, color)

draw_debug(buf, color) ==
    <<Op0("save")>> \o debug_from(cells_in_order(buf, 0), 0, color) \o <<Op0("restore")>>

\* The first n calls of a sequence of calls.
Prefix(ops, n) == SubSeq(ops, 1, n)

\* Number of fallible calls among ops.
RECURSIVE CountFallible(_)
CountFallible(ops) ==
    IF ops = <<>> THEN 0
    ELSE (IF Fallible(Head(ops)) THEN 1 ELSE 0) + CountFallible(Tail(ops))

\* Position in ops of the k-th fallible call (k >= 1, k <= CountFallible(ops)).
RECURSIVE FalliblePos(_, _, _)
FalliblePos(ops, k, at) ==
    IF Fallible(ops[at])
    THEN IF k = 1 THEN at ELSE FalliblePos(ops, k - 1, at + 1)
    ELSE FalliblePos(ops, k, at + 1)

\* update_grid that also clears the canvas whenever debug mode is on.
update_grid_calls_clear_in_debug(buf, resolved, cursor, debug, force_redraw) ==
    (IF force_redraw \/ IsSome(debug)
     THEN <<Op("clear_rect", 0, 0, Width * CELL_WIDTH, Height * CELL_HEIGHT, "")>>
     ELSE <<>>)
    \o <<Op("translate", TRANSLATE, TRANSLATE, 0, 0, "")>>
    \o draw_background(buf, resolved, background_color)
    \o draw_symbols(buf, resolved, always_clip_cells)
    \o draw_cursor(buf, cursor)
    \o (IF IsSome(debug) THEN draw_debug(buf, Unwrap(debug)) ELSE <<>>)
    \o <<Op("translate", -TRANSLATE, -TRANSLATE, 0, 0, "")>>

\* update_grid when no call fails: the context calls it issues, in order,
\* with changed_cells already resolved.
update_grid_calls(buf, resolved, cursor, debug, force_redraw) ==
    (IF force_redraw
     THEN <<Op("clear_rect", 0, 0, Width * CELL_WIDTH, Height * CELL_HEIGHT, "")>>
     ELSE <<>>)
    \o <<Op("translate", TRANSLATE, TRANSLATE, 0, 0, "")>>
    \o draw_background(buf, resolved, background_color)
    \o draw_symbols(buf, resolved, always_clip_cells)
    \o draw_cursor(buf, cursor)
    \o (IF IsSome(debug) THEN draw_debug(buf, Unwrap(debug)) ELSE <<>>)
    \o <<Op("translate", -TRANSLATE, -TRANSLATE, 0, 0, "")>>

\* update_grid with its k-th fallible context call returning Err (k = 0: none
\* does).  `?` returns at the failing call: the calls issued are those up to
\* and including it, and changed_cells is resolved once the first translate
\* has succeeded.
update_grid(all, changed, resolved, k) ==
    IF k = 0
    THEN [ops |-> all, changed |-> resolved, result |-> "Ok"]
    ELSE [ops |-> Prefix(all, FalliblePos(all, k, 1)),
          changed |-> IF k = 1 THEN changed ELSE resolved,
          result |-> "Err"]

(***************************************************************************)
(* CanvasBackend: construction and the Backend methods.                    *)
(***************************************************************************)
\* The canvas variables of a specification that does not run the canvas backend.
CanvasIdle ==
    /\ buffer = <<>> /\ prev_buffer = <<>> /\ changed_cells = <<>>
    /\ initialized = FALSE /\ cursor_position = None /\ cursor_shape = "None"
    /\ debug_mode = None /\ ctx_ops = <<>> /\ cv_call = "none" /\ cv_result = "Ok"
    /\ drawn = <<>> /\ cursor_shown = FALSE

\* CanvasBackend::new_with_options, then the builder call set_cursor_shape.
Canvas_new ==
    /\ buffer = get_sized_buffer_from_canvas
    /\ prev_buffer = get_sized_buffer_from_canvas
    /\ changed_cells = [i \in 1..(Width * Height) |-> FALSE]
    /\ initialized = FALSE
    /\ cursor_position = None
    /\ cursor_shape \in CursorShapes
    /\ debug_mode = None
    /\ ctx_ops = <<>>
    /\ cv_call = "new"
    /\ cv_result = "Ok"
    /\ drawn = get_sized_buffer_from_canvas
    /\ cursor_shown = FALSE

\* The content iterators handed to draw: up to MaxContent (x, y, cell) items.
ContentItems == { [x |-> p.x, y |-> p.y, cell |-> c] : p \in Positions, c \in DrawCells }
Contents == UNION { [1..n -> ContentItems] : n \in 0..MaxContent }

\* draw, first loop: line[x] = cell.clone() for each item in turn.
RECURSIVE store_content(_, _)
store_content(buf, content) ==
    IF content = <<>> THEN buf
    ELSE store_content([buf EXCEPT ![Head(content).y + 1][Head(content).x + 1] = Head(content).cell],
                       Tail(content))

\* draw, second part: the cursor style is written into the cursor's cell.
show_cursor_in(buf, cursor, shape) ==
    IF IsSome(cursor) /\ Unwrap(cursor).x < Len(buf[Unwrap(cursor).y + 1])
    THEN [buf EXCEPT ![Unwrap(cursor).y + 1][Unwrap(cursor).x + 1] = CursorShape_show(shape, @)]
    ELSE buf

\* hide_cursor / set_cursor_position: the cursor style is taken off a cell.
hide_cursor_in(buf, pos, shape) ==
    IF pos.x < Len(buf[pos.y + 1])
    THEN [buf EXCEPT ![pos.y + 1][pos.x + 1] = CursorShape_hide(shape, @)]
    ELSE buf

Called(name, result) ==
    /\ cv_result # "Panic"
    /\ calls < MaxCalls
    /\ calls' = calls + 1
    /\ cv_call' = name
    /\ cv_result' = result

\* saturating_sub of usize and u16.
saturating_sub(a, b) == IF a > b THEN a - b ELSE 0

\* draw's store of one item panics: self.buffer[y] has no such line, or
\* line[x] is past the line after it was extended by x - line.len() cells.
store_panics(buf, item) ==
    \/ item.y >= Len(buf)
    \/ item.x >= Len(buf[item.y + 1]) + saturating_sub(item.x, Len(buf[item.y + 1]))

\* The indexing self.buffer[y] of the cursor's line panics.
cursor_line_panics(buf, cursor) == IsSome(cursor) /\ Unwrap(cursor).y >= Len(buf)

\* The cursor, if set, names a cell of the buffer.
cursor_in_buffer(buf, cursor) ==
    IsSome(cursor) => /\ Unwrap(cursor).y < Len(buf)
                      /\ Unwrap(cursor).x < Len(buf[Unwrap(cursor).y + 1])

draw_panics(buf, content, cursor) ==
    \/ \E i \in 1..Len(content) : store_panics(buf, content[i])
    \/ cursor_line_panics(buf, cursor)

\* draw that indexes outside the buffer: the program stops.
Canvas_draw_panics(content) ==
    /\ draw_panics(buffer, content, cursor_position)
    /\ Called("draw", "Panic")
    /\ ctx_ops' = <<>>
    /\ UNCHANGED <<buffer, prev_buffer, changed_cells, initialized, cursor_position,
                   cursor_shape, debug_mode, drawn, cursor_shown, nonCanvasVars>>

Canvas_draw(content) ==
    /\ ~draw_panics(buffer, content, cursor_position)
    /\ Called("draw", "Ok")
    /\ buffer' = show_cursor_in(store_content(buffer, content), cursor_position, cursor_shape)
    /\ drawn' = store_content(drawn, content)
    /\ cursor_shown' = (IsSome(cursor_position)
                        /\ Unwrap(cursor_position).x < Len(buffer[Unwrap(cursor_position).y + 1]))
    /\ ctx_ops' = <<>>
    /\ UNCHANGED <<prev_buffer, changed_cells, initialized, cursor_position, cursor_shape,
                   debug_mode, nonCanvasVars>>

\* flush that leaves the snapshot alone after a later update.
flush_outcome_stale_snapshot(init, buf, prev, changed, u) ==
    IF ~init
    THEN IF u.result = "Err"
         THEN [result |-> "Err", prev |-> prev, initialized |-> init,
               ops |-> u.ops, changed |-> u.changed]
         ELSE [result |-> "Ok", prev |-> buf, initialized |-> TRUE,
               ops |-> u.ops, changed |-> u.changed]
    ELSE IF buf # prev
    THEN [result |-> u.result, prev |-> prev, initialized |-> init,
          ops |-> u.ops, changed |-> u.changed]
    ELSE [result |-> "Ok", prev |-> buf, initialized |-> init,
          ops |-> <<>>, changed |-> changed]

\* flush that updates the grid whether or not the buffers differ.
flush_outcome_always_updates(init, buf, prev, changed, u) ==
    IF u.result = "Err"
    THEN [result |-> "Err", prev |-> prev, initialized |-> init,
          ops |-> u.ops, changed |-> u.changed]
    ELSE [result |-> "Ok", prev |-> buf, initialized |-> TRUE,
          ops |-> u.ops, changed |-> u.changed]

\* flush that advances the snapshot and the flag before looking at the result.
flush_outcome_advances_on_err(init, buf, prev, changed, u) ==
    IF ~init \/ buf # prev
    THEN [result |-> u.result, prev |-> buf, initialized |-> TRUE,
          ops |-> u.ops, changed |-> u.changed]
    ELSE [result |-> "Ok", prev |-> buf, initialized |-> init,
          ops |-> <<>>, changed |-> changed]

\* flush, given the outcome u of the update_grid call it makes when it makes
\* one: the first flush forces a redraw and returns; later ones update only
\* when the buffers differ; `?` returns before the snapshot is advanced.
flush_outcome(init, buf, prev, changed, u) ==
    IF ~init
    THEN IF u.result = "Err"
         THEN [result |-> "Err", prev |-> prev, initialized |-> init,
               ops |-> u.ops, changed |-> u.changed]
         ELSE [result |-> "Ok", prev |-> buf, initialized |-> TRUE,
               ops |-> u.ops, changed |-> u.changed]
    ELSE IF buf # prev
    THEN IF u.result = "Err"
         THEN [result |-> "Err", prev |-> prev, initialized |-> init,
               ops |-> u.ops, changed |-> u.changed]
         ELSE [result |-> "Ok", prev |-> buf, initialized |-> init,
               ops |-> u.ops, changed |-> u.changed]
    ELSE [result |-> "Ok", prev |-> buf, initialized |-> init,
          ops |-> <<>>, changed |-> changed]

\* resolve_changed_cells reads prev_buffer[y][x] for every cell of buffer: a
\* buffer with a cell that prev_buffer lacks makes the index panic.
exceeds_snapshot(buf, prev) ==
    \/ Len(buf) > Len(prev)
    \/ \E y \in 1..Len(buf) : Len(buf[y]) > Len(prev[y])

\* flush of a buffer that exceeds the snapshot: update_grid runs (the first
\* flush forces it, later the buffers differ) and panics in
\* resolve_changed_cells; the program stops.  So it does when update_grid
\* runs with a cursor outside the buffer and reaches draw_cursor.
Canvas_flush_panics ==
    /\ \/ exceeds_snapshot(buffer, prev_buffer)
       \/ /\ ~initialized \/ buffer # prev_buffer
          /\ ~cursor_in_buffer(buffer, cursor_position)
    /\ Called("flush", "Panic")
    /\ ctx_ops' = <<>>
    /\ UNCHANGED <<buffer, prev_buffer, changed_cells, initialized, cursor_position,
                   cursor_shape, debug_mode, drawn, cursor_shown, nonCanvasVars>>

\* flush.  Its update_grid, when it runs, may have its k-th fallible context
\* call return Err (k = 0: every call succeeds).
Canvas_flush ==
    /\ ~exceeds_snapshot(buffer, prev_buffer)
    /\ LET force == ~initialized
           resolved == resolve_changed_cells(buffer, prev_buffer, changed_cells, force)
           safe == cursor_in_buffer(buffer, cursor_position)
           runs == force \/ buffer # prev_buffer
           full == update_grid_calls(buffer, resolved, IF safe THEN cursor_position ELSE None,
                                     IF safe THEN debug_mode ELSE None, force)
           \* with the cursor outside the buffer only the calls before
           \* draw_cursor are made, and one of them has to fail for flush to return
           all == IF safe THEN full ELSE SubSeq(full, 1, Len(full) - 1)
       IN /\ \E k \in (IF safe \/ ~runs THEN 0 ELSE 1)..CountFallible(all) :
                LET f == flush_outcome(initialized, buffer, prev_buffer, changed_cells,
                                       update_grid(all, changed_cells, resolved, k))
                IN /\ k > 0 => f.result = "Err"
                   /\ Called("flush", f.result)
                   /\ ctx_ops' = f.ops
                   /\ changed_cells' = f.changed
                   /\ prev_buffer' = f.prev
                   /\ initialized' = f.initialized
          /\ UNCHANGED <<buffer, cursor_position, cursor_shape, debug_mode, drawn, cursor_shown,
                         nonCanvasVars>>

\* hide_cursor or set_cursor_position with the cursor's line outside the
\* buffer: the program stops.
Canvas_cursor_panics(name) ==
    /\ cursor_line_panics(buffer, cursor_position)
    /\ Called(name, "Panic")
    /\ ctx_ops' = <<>>
    /\ UNCHANGED <<buffer, prev_buffer, changed_cells, initialized, cursor_position,
                   cursor_shape, debug_mode, drawn, cursor_shown, nonCanvasVars>>

Canvas_hide_cursor ==
    /\ ~cursor_line_panics(buffer, cursor_position)
    /\ Called("hide_cursor", "Ok")
    /\ buffer' = IF IsSome(cursor_position)
                 THEN hide_cursor_in(buffer, Unwrap(cursor_position), cursor_shape)
                 ELSE buffer
    /\ cursor_position' = None
    /\ cursor_shown' = FALSE
    /\ ctx_ops' = <<>>
    /\ UNCHANGED <<prev_buffer, changed_cells, initialized, cursor_shape, debug_mode, drawn,
                   nonCanvasVars>>

Canvas_set_cursor_position(new_pos) ==
    /\ ~cursor_line_panics(buffer, cursor_position)
    /\ Called("set_cursor_position", "Ok")
    /\ buffer' = IF IsSome(cursor_position) /\ Unwrap(cursor_position) # new_pos
                 THEN hide_cursor_in(buffer, Unwrap(cursor_position), cursor_shape)
                 ELSE buffer
    /\ cursor_position' = Some(new_pos)
    /\ cursor_shown' = (cursor_shown /\ cursor_position = Some(new_pos))
    /\ ctx_ops' = <<>>
    /\ UNCHANGED <<prev_buffer, changed_cells, initialized, cursor_shape, debug_mode, drawn,
                   nonCanvasVars>>

Canvas_clear(window) ==
    /\ Called("clear", "Ok")
    /\ buffer' = get_sized_buffer(window)
    /\ drawn' = get_sized_buffer(window)
    /\ cursor_shown' = FALSE
    /\ ctx_ops' = <<>>
    /\ UNCHANGED <<prev_buffer, changed_cells, initialized, cursor_position, cursor_shape,
                   debug_mode, nonCanvasVars>>

DebugColors == {None, Some("red")}

Canvas_set_debug_mode(color) ==
    /\ Called("set_debug_mode", "Ok")
    /\ debug_mode' = color
    /\ ctx_ops' = <<>>
    /\ UNCHANGED <<buffer, prev_buffer, changed_cells, initialized, cursor_position,
                   cursor_shape, drawn, cursor_shown, nonCanvasVars>>

(***************************************************************************)
(* One row of draw_background, cell by cell.                               *)
(***************************************************************************)
RowIdle ==
    /\ row_colors = <<>> /\ row_dirty = <<>> /\ row_y = 0 /\ row_x = 0
    /\ pending_region = None /\ row_emitted = <<>> /\ row_done = FALSE

RowColors == {"Red", "Green"}

\* A row enters the loop with a fresh optimizer (RowColorOptimizer::new).
Row_new ==
    /\ \E n \in 0..MaxRowLen :
          /\ row_colors \in [1..n -> RowColors]
          /\ row_dirty \in [1..n -> BOOLEAN]
    /\ row_y \in 0..(Height - 1)
    /\ row_x = 0
    /\ pending_region = None
    /\ row_emitted = <<>>
    /\ row_done = FALSE

Emit(out) == row_emitted' = row_emitted \o (IF IsSome(out) THEN <<Unwrap(out)>> ELSE <<>>)

\* changed_cells[index] is set: process_color(...).map(draw_region)
Row_changed_cell ==
    /\ row_x < Len(row_colors)
    /\ row_dirty[row_x + 1]
    /\ LET r == process_color(pending_region, <<row_x, row_y>>, row_colors[row_x + 1])
       IN /\ pending_region' = r.pending
          /\ Emit(r.out)
    /\ row_x' = row_x + 1
    /\ UNCHANGED <<row_colors, row_dirty, row_y, row_done, nonRowVars>>

\* the cell is unchanged: flush().map(draw_region)
Row_unchanged_cell ==
    /\ row_x < Len(row_colors)
    /\ ~row_dirty[row_x + 1]
    /\ LET r == optimizer_flush(pending_region)
       IN /\ pending_region' = r.pending
          /\ Emit(r.out)
    /\ row_x' = row_x + 1
    /\ UNCHANGED <<row_colors, row_dirty, row_y, row_done, nonRowVars>>

\* after the row: flush().map(draw_region)
Row_end ==
    /\ row_x = Len(row_colors)
    /\ ~row_done
    /\ LET r == optimizer_flush(pending_region)
       IN /\ pending_region' = r.pending
          /\ Emit(r.out)
    /\ row_done' = TRUE
    /\ UNCHANGED <<row_colors, row_dirty, row_y, row_x, nonRowVars>>

(***************************************************************************)
(* WebGl2Backend: conversion of cells for the renderer.                    *)
(***************************************************************************)
\* The bitwise operators on unsigned values, bit by bit from the lowest.
RECURSIVE Bitwise(_, _, _)
Bitwise(op, a, b) ==
    IF a = 0 /\ b = 0 THEN 0
    ELSE (CASE op = "and" -> (a % 2) * (b % 2)
            [] op = "or" -> IF (a % 2) + (b % 2) > 0 THEN 1 ELSE 0
            [] op = "xor" -> ((a % 2) + (b % 2)) % 2)
         + 2 * Bitwise(op, a \div 2, b \div 2)

BitAnd(a, b) == Bitwise("and", a, b)
BitOr(a, b) == Bitwise("or", a, b)
BitXor(a, b) == Bitwise("xor", a, b)
Shl16(m, k) == (m * (2 ^ k)) % (2 ^ 16)

\* ratatui's Modifier flags as bits.
ModifierBit(name) ==
    CASE name = "BOLD" -> 2 ^ 0
      [] name = "DIM" -> 2 ^ 1
      [] name = "ITALIC" -> 2 ^ 2
      [] name = "UNDERLINED" -> 2 ^ 3
      [] name = "SLOW_BLINK" -> 2 ^ 4
      [] name = "RAPID_BLINK" -> 2 ^ 5
      [] name = "REVERSED" -> 2 ^ 6
      [] name = "HIDDEN" -> 2 ^ 7
      [] name = "CROSSED_OUT" -> 2 ^ 8

RECURSIVE Modifier_bits(_)
Modifier_bits(m) ==
    IF m = {} THEN 0
    ELSE LET name == CHOOSE n \in m : TRUE
         IN ModifierBit(name) + Modifier_bits(m \ {name})

\* into_glyph_bits with the italic flag shifted as far as the bold flag.
into_glyph_bits_italic_shift(m) ==
    BitOr(BitOr(BitOr(BitAnd(Shl16(m, 10), 2 ^ 10),
                      BitAnd(Shl16(m, 10), 2 ^ 11)),
                BitAnd(Shl16(m, 10), 2 ^ 13)),
          BitAnd(Shl16(m, 6), 2 ^ 14))

\* into_glyph_bits: the four shifts and masks, or-ed together.
into_glyph_bits(m) ==
    BitOr(BitOr(BitOr(BitAnd(Shl16(m, 10), 2 ^ 10),
                      BitAnd(Shl16(m, 9), 2 ^ 11)),
                BitAnd(Shl16(m, 10), 2 ^ 13)),
          BitAnd(Shl16(m, 6), 2 ^ 14))

\* GlyphEffect::Underline as u16
GlyphEffect_Underline == 2 ^ 13

\* color::to_rgb: the colour's 24-bit value, the default standing in for Reset.
to_rgb(color, default) ==
    CASE color = "Reset" -> default
      [] color = "Red" -> 128 * 65536
      [] color = "Green" -> 128 * 256
      [] color = "White" -> 16777215
      [] color = "Black" -> 0

\* resolve_fg_bg_colors: REVERSED swaps the two.
resolve_fg_bg_colors(cell) ==
    LET fg == to_rgb(cell.fg, 16777215)
        bg == to_rgb(cell.bg, 0)
    IN IF "REVERSED" \in cell.modifier THEN [fg |-> bg, bg |-> fg] ELSE [fg |-> fg, bg |-> bg]

CellData_new(sym, style_bits, fg, bg) ==
    [fg |-> fg, bg |-> bg, symbol |-> sym, style |-> style_bits]

\* cell_data: a Cell as the renderer's CellData.
cell_data(cell) ==
    CellData_new(cell.symbol, into_glyph_bits(Modifier_bits(cell.modifier)),
                 resolve_fg_bg_colors(cell).fg, resolve_fg_bg_colors(cell).bg)

\* CellData::flip_colors: foreground and background change places.
flip_colors(c) == [c EXCEPT !.fg = c.bg, !.bg = c.fg]

\* The cell clear() fills the grid with.
BlankCellData == CellData_new(" ", 0, 16777215, 0)

(***************************************************************************)
(* The renderer (beamterm), as the backend uses it: a grid of CellData     *)
(* that update_cells_by_position and update_cells write and render_frame   *)
(* presents; cell_data_mut gives a cell of the grid, None outside it.      *)
(***************************************************************************)
InGrid(grid, x, y) == y < Len(grid) /\ x < Len(grid[y + 1])

RECURSIVE update_cells_by_position(_, _)
update_cells_by_position(grid, cells) ==
    IF cells = <<>> THEN grid
    ELSE LET c == Head(cells)
         IN update_cells_by_position(
                IF InGrid(grid, c.x, c.y) THEN [grid EXCEPT ![c.y + 1][c.x + 1] = c.data] ELSE grid,
                Tail(cells))

\* update_cells with cell_count copies of one cell.
update_cells_with(grid, data) == [y \in 1..Len(grid) |-> [x \in 1..Len(grid[y]) |-> data]]

\* A cell that is part of a url, as find_url_at sees it.
IsUrlCell(c) == c.symbol = "u"

RECURSIVE url_start(_, _)
url_start(line, x) == IF x > 0 /\ IsUrlCell(line[x]) THEN url_start(line, x - 1) ELSE x

RECURSIVE url_end(_, _)
url_end(line, x) ==
    IF x + 1 < Len(line) /\ IsUrlCell(line[x + 2]) THEN url_end(line, x + 1) ELSE x

\* Terminal::find_url_at: the url whose span holds the cell, if any.
find_url_at(grid, col, row) ==
    IF InGrid(grid, col, row) /\ IsUrlCell(grid[row + 1][col + 1])
    THEN LET line == grid[row + 1]
             first == url_start(line, col)
             last == url_end(line, col)
         IN Some([row |-> row, start |-> first, end |-> last,
                  url |-> [i \in 1..(last - first + 1) |-> line[first + i].symbol]])
    ELSE None

RCall(op, arg) == [op |-> op, arg |-> arg]

(***************************************************************************)
(* WebGl2Backend: cursor toggling, hyperlink events, measurements.         *)
(***************************************************************************)
\* draw_cursor with the underline bit set rather than toggled.
WebGl2_draw_cursor_sets_underline(grid, pos, shape) ==
    IF InGrid(grid, pos.x, pos.y)
    THEN CASE shape = "SteadyBlock" ->
                [grid EXCEPT ![pos.y + 1][pos.x + 1] = flip_colors(@)]
           [] shape = "SteadyUnderScore" ->
                [grid EXCEPT ![pos.y + 1][pos.x + 1].style = BitOr(@, GlyphEffect_Underline)]
           [] OTHER -> grid
    ELSE grid

\* draw_cursor: flip_colors, or the underline bit xor-ed, on the cell at pos.
WebGl2_draw_cursor(grid, pos, shape) ==
    IF InGrid(grid, pos.x, pos.y)
    THEN CASE shape = "SteadyBlock" ->
                [grid EXCEPT ![pos.y + 1][pos.x + 1] = flip_colors(@)]
           [] shape = "SteadyUnderScore" ->
                [grid EXCEPT ![pos.y + 1][pos.x + 1].style = BitXor(@, GlyphEffect_Underline)]
           [] OTHER -> grid
    ELSE grid

toggle_cursor(grid, cursor, shape) ==
    IF IsSome(cursor) THEN WebGl2_draw_cursor(grid, Unwrap(cursor), shape) ELSE grid

measure_begin(measure, label) == IF measure THEN <<RCall("mark", label)>> ELSE <<>>
measure_end(measure, label) == IF measure THEN <<RCall("measure", label)>> ELSE <<>>

NoPending == [hover |-> None, click |-> None]

\* Hyperlink processing that leaves the pending click in place.
process_hyperlink_events_keeps_click(state, over, css, has_callback, grid) ==
    IF ~IsSome(state)
    THEN [state |-> state, over |-> over, css |-> css, urls |-> <<>>, calls |-> <<>>,
          style |-> <<>>]
    ELSE LET pending == Unwrap(state)
             clicked == IF IsSome(pending.click)
                        THEN find_url_at(grid, Unwrap(pending.click)[1], Unwrap(pending.click)[2])
                        ELSE None
             hovered == IF IsSome(pending.hover)
                        THEN find_url_at(grid, Unwrap(pending.hover)[1], Unwrap(pending.hover)[2])
                        ELSE None
             is_over == IsSome(hovered)
             changes == IsSome(pending.hover) /\ over # is_over
         IN [state |-> Some(pending),
             over |-> IF changes THEN is_over ELSE over,
             css |-> IF changes THEN (IF is_over THEN "pointer" ELSE "default") ELSE css,
             style |-> IF changes THEN <<IF is_over THEN "pointer" ELSE "default">> ELSE <<>>,
             urls |-> IF IsSome(clicked) /\ has_callback THEN <<Unwrap(clicked).url>> ELSE <<>>,
             calls |-> (IF IsSome(pending.click)
                        THEN <<RCall("find_url_at", Unwrap(pending.click))>> ELSE <<>>)
                       \o (IF IsSome(pending.hover)
                           THEN <<RCall("find_url_at", Unwrap(pending.hover))>> ELSE <<>>)]

\* Hyperlink processing that writes the cursor style for every pending hover,
\* transition or not.
process_hyperlink_events_writes_always(state, over, css, has_callback, grid) ==
    IF ~IsSome(state)
    THEN [state |-> state, over |-> over, css |-> css, urls |-> <<>>, calls |-> <<>>,
          style |-> <<>>]
    ELSE LET pending == Unwrap(state)
             clicked == IF IsSome(pending.click)
                        THEN find_url_at(grid, Unwrap(pending.click)[1], Unwrap(pending.click)[2])
                        ELSE None
             hovered == IF IsSome(pending.hover)
                        THEN find_url_at(grid, Unwrap(pending.hover)[1], Unwrap(pending.hover)[2])
                        ELSE None
             is_over == IsSome(hovered)
             changes == IsSome(pending.hover)
         IN [state |-> Some([pending EXCEPT !.click = None]),
             over |-> IF changes THEN is_over ELSE over,
             css |-> IF changes THEN (IF is_over THEN "pointer" ELSE "default") ELSE css,
             style |-> IF changes THEN <<IF is_over THEN "pointer" ELSE "default">> ELSE <<>>,
             urls |-> IF IsSome(clicked) /\ has_callback THEN <<Unwrap(clicked).url>> ELSE <<>>,
             calls |-> (IF IsSome(pending.click)
                        THEN <<RCall("find_url_at", Unwrap(pending.click))>> ELSE <<>>)
                       \o (IF IsSome(pending.hover)
                           THEN <<RCall("find_url_at", Unwrap(pending.hover))>> ELSE <<>>)]

\* process_hyperlink_events: the pending click is taken and, over a url, handed
\* to the callback; the pending hover updates cursor_over_hyperlink and, on a
\* change of it, the canvas's cursor style.
process_hyperlink_events(state, over, css, has_callback, grid) ==
    IF ~IsSome(state)
    THEN [state |-> state, over |-> over, css |-> css, urls |-> <<>>, calls |-> <<>>,
          style |-> <<>>]
    ELSE LET pending == Unwrap(state)
             clicked == IF IsSome(pending.click)
                        THEN find_url_at(grid, Unwrap(pending.click)[1], Unwrap(pending.click)[2])
                        ELSE None
             hovered == IF IsSome(pending.hover)
                        THEN find_url_at(grid, Unwrap(pending.hover)[1], Unwrap(pending.hover)[2])
                        ELSE None
             is_over == IsSome(hovered)
             changes == IsSome(pending.hover) /\ over # is_over
         IN [state |-> Some([pending EXCEPT !.click = None]),
             over |-> IF changes THEN is_over ELSE over,
             css |-> IF changes THEN (IF is_over THEN "pointer" ELSE "default") ELSE css,
             style |-> IF changes THEN <<IF is_over THEN "pointer" ELSE "default">> ELSE <<>>,
             urls |-> IF IsSome(clicked) /\ has_callback THEN <<Unwrap(clicked).url>> ELSE <<>>,
             calls |-> (IF IsSome(pending.click)
                        THEN <<RCall("find_url_at", Unwrap(pending.click))>> ELSE <<>>)
                       \o (IF IsSome(pending.hover)
                           THEN <<RCall("find_url_at", Unwrap(pending.hover))>> ELSE <<>>)]

(***************************************************************************)
(* WebGl2Backend: the backend's methods and the browser events it sees.    *)
(***************************************************************************)
GlIdle ==
    /\ gl_grid = <<>> /\ gl_cursor_position = None /\ gl_cursor_shape = "None"
    /\ gl_selection = FALSE /\ gl_measure = FALSE /\ gl_hyperlink_callback = FALSE
    /\ gl_hyperlink_state = None /\ gl_cursor_over_hyperlink = FALSE
    /\ gl_canvas_cursor = "default" /\ gl_display_size = <<0, 0>> /\ gl_stored_size = <<0, 0>>
    /\ gl_renderer_calls = <<>> /\ gl_perf_calls = <<>> /\ gl_perf_results = <<>>
    /\ gl_style_writes = <<>>
    /\ gl_callback_urls = <<>>
    /\ gl_uploaded = FALSE /\ gl_flushed_updates = FALSE
    /\ gl_link_releases = <<>> /\ gl_link_callbacks = <<>>
    /\ gl_call = "none" /\ gl_result = "Ok"

\* Display sizes of the canvas, in cells of the terminal grid they give.
DisplaySizes == {<<Width, Height>>, <<Width, Height - 1>>}

\* WebGl2Backend::new_with_options over the options that matter here, then the
\* builder call set_cursor_shape.
WebGl2_new ==
    /\ gl_grid = [y \in 1..Height |-> [x \in 1..Width |-> BlankCellData]]
    /\ gl_cursor_position = None
    /\ gl_cursor_shape \in CursorShapes
    /\ gl_selection \in BOOLEAN
    /\ gl_measure \in BOOLEAN
    /\ gl_hyperlink_callback \in BOOLEAN
    /\ gl_hyperlink_state = IF gl_hyperlink_callback THEN Some(NoPending) ELSE None
    /\ gl_cursor_over_hyperlink = FALSE
    /\ gl_canvas_cursor = "default"
    /\ gl_display_size = <<Width, Height>>
    /\ gl_stored_size = <<Width, Height>>
    /\ gl_renderer_calls = <<>> /\ gl_perf_calls = <<>> /\ gl_perf_results = <<>>
    /\ gl_style_writes = <<>>
    /\ gl_callback_urls = <<>>
    /\ gl_uploaded = FALSE /\ gl_flushed_updates = FALSE
    /\ gl_link_releases = <<>> /\ gl_link_callbacks = <<>>
    /\ gl_call = "new" /\ gl_result = "Ok"

GlCalled(name, result) ==
    /\ calls < MaxCalls
    /\ calls' = calls + 1
    /\ gl_call' = name
    /\ gl_result' = result

\* Cells a frame hands to draw: blank, part of a url, coloured and reversed.
GlDrawCells ==
    { DefaultCell,
      NewCell("u", "Reset", "Reset", {"UNDERLINED"}),
      NewCell("b", "Red", "Reset", {"REVERSED"}) }

GlContents ==
    {<<>>} \cup UNION { [1..n -> [x : 0..(Width - 1), y : 0..(Height - 1), cell : GlDrawCells]]
                        : n \in 1..MaxContent }

\* update_grid's map of the content to (x, y, CellData).
content_cell_data(content) ==
    [i \in 1..Len(content) |->
        [x |-> content[i].x, y |-> content[i].y, data |-> cell_data(content[i].cell)]]

\* What the Performance API may return for a sequence of calls to it.
PerfResults(perf) == [1..Len(perf) -> {"Ok", "Err"}]

\* draw: update_grid when there is content or mouse selection is enabled; the
\* renderer's update may fail, and the error is returned before measure_end.
\* cells is the content as update_grid maps it.
WebGl2_draw_outcome(grid, selection, measure, cells, fails) ==
    LET updates == cells # <<>> \/ selection
    IN [result |-> IF fails THEN "Err" ELSE "Ok",
        grid |-> IF updates /\ ~fails THEN update_cells_by_position(grid, cells) ELSE grid,
        calls |-> IF updates THEN <<RCall("update_cells_by_position", cells)>> ELSE <<>>,
        perf |-> IF updates
                 THEN measure_begin(measure, "sync-terminal-buffer")
                      \o (IF fails THEN <<>>
                          ELSE measure_end(measure, "sync-terminal-buffer"))
                 ELSE <<>>]

WebGl2_draw(content, fails) ==
    \E cells \in {content_cell_data(content)} :
       /\ calls < MaxCalls
       /\ fails => (content # <<>> \/ gl_selection)
       /\ \E d \in {WebGl2_draw_outcome(gl_grid, gl_selection, gl_measure, cells, fails)} :
          /\ GlCalled("draw", d.result)
          /\ gl_grid' = d.grid
          /\ gl_renderer_calls' = d.calls
          /\ gl_perf_calls' = d.perf
          /\ gl_perf_results' \in PerfResults(d.perf)
          /\ gl_style_writes' = <<>>
          /\ gl_uploaded' = (gl_uploaded \/ (content # <<>> /\ ~fails))
          /\ gl_callback_urls' = <<>>
          /\ UNCHANGED <<gl_cursor_position, gl_cursor_shape, gl_selection, gl_measure,
                         gl_hyperlink_callback, gl_hyperlink_state,
                         gl_cursor_over_hyperlink, gl_canvas_cursor, gl_display_size,
                         gl_stored_size, gl_flushed_updates, gl_link_releases,
                         gl_link_callbacks, nonGlVars>>

\* The renderer's resize: the grid takes the new dimensions; a cell of both
\* grids keeps its content, a new cell is blank.
resize_grid(grid, size) ==
    [y \in 1..size[2] |-> [x \in 1..size[1] |->
        IF InGrid(grid, x - 1, y - 1) THEN grid[y][x] ELSE BlankCellData]]

\* flush that presents no frame when there is no cursor to show.
WebGl2_flush_outcome_skips_render(grid, cursor, shape, measure, display, stored, fail) ==
    LET mismatch == display # stored
        resized == IF mismatch /\ fail # "resize" THEN resize_grid(grid, display) ELSE grid
        shown == toggle_cursor(resized, cursor, shape)
    IN IF mismatch /\ fail = "resize"
       THEN [result |-> "Err", grid |-> grid, stored |-> stored, resized |-> FALSE,
             calls |-> <<RCall("resize", display)>>, perf |-> <<>>]
       ELSE IF fail = "render_frame"
       THEN [result |-> "Err", grid |-> shown,
             stored |-> display, resized |-> mismatch,
             calls |-> (IF mismatch THEN <<RCall("resize", display)>> ELSE <<>>)
                       \o <<RCall("render_frame", shown)>>,
             perf |-> measure_begin(measure, "webgl-render")]
       ELSE [result |-> "Ok", grid |-> toggle_cursor(shown, cursor, shape),
             stored |-> display, resized |-> mismatch,
             calls |-> (IF mismatch THEN <<RCall("resize", display)>> ELSE <<>>)
                       \o (IF IsSome(cursor) THEN <<RCall("render_frame", shown)>> ELSE <<>>),
             perf |-> measure_begin(measure, "webgl-render")
                      \o measure_end(measure, "webgl-render")]

\* flush that presents the frame before the cursor is toggled into it.
WebGl2_flush_outcome_renders_untoggled(grid, cursor, shape, measure, display, stored, fail) ==
    LET mismatch == display # stored
        resized == IF mismatch /\ fail # "resize" THEN resize_grid(grid, display) ELSE grid
        shown == toggle_cursor(resized, cursor, shape)
    IN IF mismatch /\ fail = "resize"
       THEN [result |-> "Err", grid |-> grid, stored |-> stored, resized |-> FALSE,
             calls |-> <<RCall("resize", display)>>, perf |-> <<>>]
       ELSE IF fail = "render_frame"
       THEN [result |-> "Err", grid |-> shown,
             stored |-> display, resized |-> mismatch,
             calls |-> (IF mismatch THEN <<RCall("resize", display)>> ELSE <<>>)
                       \o <<RCall("render_frame", resized)>>,
             perf |-> measure_begin(measure, "webgl-render")]
       ELSE [result |-> "Ok", grid |-> toggle_cursor(shown, cursor, shape),
             stored |-> display, resized |-> mismatch,
             calls |-> (IF mismatch THEN <<RCall("resize", display)>> ELSE <<>>)
                       \o <<RCall("render_frame", resized)>>,
             perf |-> measure_begin(measure, "webgl-render")
                      \o measure_end(measure, "webgl-render")]

\* flush whose resize leaves cursor_over_hyperlink as it is.
WebGl2_flush_outcome_keeps_flag(grid, cursor, shape, measure, display, stored, fail) ==
    LET mismatch == display # stored
        resized == IF mismatch /\ fail # "resize" THEN resize_grid(grid, display) ELSE grid
        shown == toggle_cursor(resized, cursor, shape)
    IN IF mismatch /\ fail = "resize"
       THEN [result |-> "Err", grid |-> grid, stored |-> stored, resized |-> FALSE,
             calls |-> <<RCall("resize", display)>>, perf |-> <<>>]
       ELSE IF fail = "render_frame"
       THEN [result |-> "Err", grid |-> shown,
             stored |-> display, resized |-> FALSE,
             calls |-> (IF mismatch THEN <<RCall("resize", display)>> ELSE <<>>)
                       \o <<RCall("render_frame", shown)>>,
             perf |-> measure_begin(measure, "webgl-render")]
       ELSE [result |-> "Ok", grid |-> toggle_cursor(shown, cursor, shape),
             stored |-> display, resized |-> FALSE,
             calls |-> (IF mismatch THEN <<RCall("resize", display)>> ELSE <<>>)
                       \o <<RCall("render_frame", shown)>>,
             perf |-> measure_begin(measure, "webgl-render")
                      \o measure_end(measure, "webgl-render")]

\* flush in which a measured frame that fails to render still restores the
\* cursor cell.
WebGl2_flush_outcome_measured_untoggles(grid, cursor, shape, measure, display, stored, fail) ==
    LET mismatch == display # stored
        resized == IF mismatch /\ fail # "resize" THEN resize_grid(grid, display) ELSE grid
        shown == toggle_cursor(resized, cursor, shape)
    IN IF mismatch /\ fail = "resize"
       THEN [result |-> "Err", grid |-> grid, stored |-> stored, resized |-> FALSE,
             calls |-> <<RCall("resize", display)>>, perf |-> <<>>]
       ELSE IF fail = "render_frame"
       THEN [result |-> "Err",
             grid |-> IF measure THEN toggle_cursor(shown, cursor, shape) ELSE shown,
             stored |-> display, resized |-> mismatch,
             calls |-> (IF mismatch THEN <<RCall("resize", display)>> ELSE <<>>)
                       \o <<RCall("render_frame", shown)>>,
             perf |-> measure_begin(measure, "webgl-render")]
       ELSE [result |-> "Ok", grid |-> toggle_cursor(shown, cursor, shape),
             stored |-> display, resized |-> mismatch,
             calls |-> (IF mismatch THEN <<RCall("resize", display)>> ELSE <<>>)
                       \o <<RCall("render_frame", shown)>>,
             perf |-> measure_begin(measure, "webgl-render")
                      \o measure_end(measure, "webgl-render")]

\* flush after process_hyperlink_events: check_canvas_resize, measure_begin,
\* toggle_cursor, render_frame, toggle_cursor, measure_end.  fail names the
\* renderer call that returns an error, if one does.
WebGl2_flush_outcome(grid, cursor, shape, measure, display, stored, fail) ==
    LET mismatch == display # stored
        resized == IF mismatch /\ fail # "resize" THEN resize_grid(grid, display) ELSE grid
        shown == toggle_cursor(resized, cursor, shape)
    IN IF mismatch /\ fail = "resize"
       THEN [result |-> "Err", grid |-> grid, stored |-> stored, resized |-> FALSE,
             calls |-> <<RCall("resize", display)>>, perf |-> <<>>]
       ELSE IF fail = "render_frame"
       THEN [result |-> "Err", grid |-> shown,
             stored |-> display, resized |-> mismatch,
             calls |-> (IF mismatch THEN <<RCall("resize", display)>> ELSE <<>>)
                       \o <<RCall("render_frame", shown)>>,
             perf |-> measure_begin(measure, "webgl-render")]
       ELSE [result |-> "Ok", grid |-> toggle_cursor(shown, cursor, shape),
             stored |-> display, resized |-> mismatch,
             calls |-> (IF mismatch THEN <<RCall("resize", display)>> ELSE <<>>)
                       \o <<RCall("render_frame", shown)>>,
             perf |-> measure_begin(measure, "webgl-render")
                      \o measure_end(measure, "webgl-render")]

WebGl2_flush(fail) ==
    LET h == process_hyperlink_events(gl_hyperlink_state, gl_cursor_over_hyperlink,
                                      gl_canvas_cursor, gl_hyperlink_callback, gl_grid)
        f == WebGl2_flush_outcome(gl_grid, gl_cursor_position, gl_cursor_shape, gl_measure,
                                  gl_display_size, gl_stored_size, fail)
    IN /\ fail = "resize" => gl_display_size # gl_stored_size
       /\ GlCalled("flush", f.result)
       /\ gl_hyperlink_state' = h.state
       /\ gl_callback_urls' = h.urls
       /\ gl_cursor_over_hyperlink' = IF f.resized THEN FALSE ELSE h.over
       /\ gl_canvas_cursor' = h.css
       /\ gl_grid' = f.grid
       /\ gl_stored_size' = f.stored
       /\ gl_renderer_calls' = h.calls \o f.calls
       /\ gl_perf_calls' = f.perf
       /\ gl_perf_results' \in PerfResults(f.perf)
       /\ gl_style_writes' = h.style
       /\ gl_uploaded' = FALSE
       /\ gl_flushed_updates' = gl_uploaded
       /\ gl_link_callbacks' = gl_link_callbacks \o h.urls
       /\ UNCHANGED <<gl_cursor_position, gl_cursor_shape, gl_selection, gl_measure,
                      gl_hyperlink_callback, gl_display_size, gl_link_releases, nonGlVars>>

WebGl2_hide_cursor ==
    /\ GlCalled("hide_cursor", "Ok")
    /\ gl_cursor_position' = None
    /\ gl_renderer_calls' = <<>> /\ gl_perf_calls' = <<>> /\ gl_perf_results' = <<>>
    /\ gl_style_writes' = <<>>
    /\ gl_callback_urls' = <<>>
    /\ UNCHANGED <<gl_grid, gl_cursor_shape, gl_selection, gl_measure, gl_hyperlink_callback,
                   gl_hyperlink_state, gl_cursor_over_hyperlink, gl_canvas_cursor,
                   gl_display_size, gl_stored_size, gl_uploaded, gl_flushed_updates,
                   gl_link_releases, gl_link_callbacks, nonGlVars>>

\* Positions a caller may give, the first column past the grid among them.
GlCursorPositions == [x : 0..Width, y : 0..(Height - 1)]

WebGl2_set_cursor_position(position) ==
    /\ GlCalled("set_cursor_position", "Ok")
    /\ gl_cursor_position' = Some(position)
    /\ gl_renderer_calls' = <<>> /\ gl_perf_calls' = <<>> /\ gl_perf_results' = <<>>
    /\ gl_style_writes' = <<>>
    /\ gl_callback_urls' = <<>>
    /\ UNCHANGED <<gl_grid, gl_cursor_shape, gl_selection, gl_measure, gl_hyperlink_callback,
                   gl_hyperlink_state, gl_cursor_over_hyperlink, gl_canvas_cursor,
                   gl_display_size, gl_stored_size, gl_uploaded, gl_flushed_updates,
                   gl_link_releases, gl_link_callbacks, nonGlVars>>

\* clear: update_cells with cell_count blank cells; the update may fail.
WebGl2_clear(fails) ==
    /\ GlCalled("clear", IF fails THEN "Err" ELSE "Ok")
    /\ gl_grid' = IF fails THEN gl_grid ELSE update_cells_with(gl_grid, BlankCellData)
    /\ gl_renderer_calls' = <<RCall("update_cells", BlankCellData)>>
    /\ gl_perf_calls' = <<>> /\ gl_perf_results' = <<>>
    /\ gl_style_writes' = <<>>
    /\ gl_callback_urls' = <<>>
    /\ gl_uploaded' = (gl_uploaded \/ ~fails)
    /\ UNCHANGED <<gl_cursor_position, gl_cursor_shape, gl_selection, gl_measure,
                   gl_hyperlink_callback, gl_hyperlink_state, gl_cursor_over_hyperlink,
                   gl_canvas_cursor, gl_display_size, gl_stored_size,
                   gl_flushed_updates,
                   gl_link_releases, gl_link_callbacks, nonGlVars>>

\* The closure of create_hyperlink_mouse_handler, run for a mouse event on the
\* canvas: a left button release records a click, a move records a hover.
WebGl2_hyperlink_mouse_event(type, button, col, row) ==
    /\ IsSome(gl_hyperlink_state)
    /\ GlCalled("mouse_event", "Ok")
    /\ gl_hyperlink_state' =
          CASE type = "MouseUp" /\ button = 0 ->
                  Some([Unwrap(gl_hyperlink_state) EXCEPT !.click = Some(<<col, row>>)])
            [] type = "MouseMove" ->
                  Some([Unwrap(gl_hyperlink_state) EXCEPT !.hover = Some(<<col, row>>)])
            [] OTHER -> gl_hyperlink_state
    /\ gl_link_releases' =
          IF type = "MouseUp" /\ button = 0 /\ IsSome(find_url_at(gl_grid, col, row))
          THEN Append(gl_link_releases, Unwrap(find_url_at(gl_grid, col, row)).url)
          ELSE gl_link_releases
    /\ gl_renderer_calls' = <<>> /\ gl_perf_calls' = <<>> /\ gl_perf_results' = <<>>
    /\ gl_style_writes' = <<>>
    /\ gl_callback_urls' = <<>>
    /\ UNCHANGED <<gl_grid, gl_cursor_position, gl_cursor_shape, gl_selection, gl_measure,
                   gl_hyperlink_callback, gl_cursor_over_hyperlink, gl_canvas_cursor,
                   gl_display_size, gl_stored_size, gl_uploaded, gl_flushed_updates,
                   gl_link_callbacks, nonGlVars>>

\* The browser lays the canvas out at another display size.
WebGl2_display_resized(size) ==
    /\ size # gl_display_size
    /\ GlCalled("display_resized", "Ok")
    /\ gl_display_size' = size
    /\ gl_renderer_calls' = <<>> /\ gl_perf_calls' = <<>> /\ gl_perf_results' = <<>>
    /\ gl_style_writes' = <<>>
    /\ gl_callback_urls' = <<>>
    /\ UNCHANGED <<gl_grid, gl_cursor_position, gl_cursor_shape, gl_selection, gl_measure,
                   gl_hyperlink_callback, gl_hyperlink_state, gl_cursor_over_hyperlink,
                   gl_canvas_cursor, gl_stored_size, gl_uploaded, gl_flushed_updates,
                   gl_link_releases, gl_link_callbacks, nonGlVars>>

(***************************************************************************)
(* DomBackend: one element per cell.                                       *)
(***************************************************************************)
DomIdle ==
    /\ dom_initialized = FALSE /\ dom_cells = <<>> /\ dom_size = <<0, 0>>
    /\ dom_window_size = <<0, 0>> /\ dom_attached = FALSE
    /\ dom_cursor_position = None /\ dom_last_cursor_position = None
    /\ dom_cursor_shape = "None" /\ dom_content = <<>>
    /\ dom_call = "none" /\ dom_result = "Ok"

\* Length in bytes and display width of the symbols of this model: "e'" is
\* an e with a combining accent, "CJK" one fullwidth glyph.
SymbolLen(sym) == CASE sym = "" -> 0 [] sym \in {"e'", "CJK"} -> 3 [] OTHER -> 1
SymbolWidth(sym) == CASE sym = "" -> 0 [] sym = "CJK" -> 2 [] OTHER -> 1

\* utils::get_cell_style_as_css: the css text derived from a cell's colours
\* and modifiers.
get_cell_style_as_css(cell) == [fg |-> cell.fg, bg |-> cell.bg, modifier |-> cell.modifier]

\* An element: its inner html, the css of its style attribute that came from a
\* cell, and the style's text-decoration field as update_css_field left it.
Element(html, css, decoration) == [style |-> css, html |-> html, text_decoration |-> decoration]

\* utils::create_span: a span showing the cell.
create_span(cell) == Element(cell.symbol, get_cell_style_as_css(cell), None)

\* CursorShape::get_css_attribute: the value of the text-decoration field.
get_css_attribute(shape) ==
    CASE shape = "SteadyBlock" -> Some("none")
      [] shape = "SteadyUnderScore" -> Some("underline")
      [] shape = "None" -> None

\* utils::update_css_field: the field of the element's style is set, or
\* removed when the attribute has no value.
update_css_field(attribute, elem) == [elem EXCEPT !.text_decoration = attribute]

\* populate: width * height spans of the default cell, appended to cells.
populate(cells, size) == cells \o [i \in 1..(size[1] * size[2]) |-> create_span(DefaultCell)]

\* The window sizes get_size() may report.
DomSizes == {<<Width, Height>>, <<Width - 1, Height>>}

\* DomBackend::new_with_options in a window of one of the sizes.
Dom_new_in(sizes) ==
    /\ dom_initialized = FALSE
    /\ dom_cells = <<>>
    /\ dom_window_size \in sizes
    /\ dom_size = dom_window_size
    /\ dom_attached = FALSE
    /\ dom_cursor_position = None
    /\ dom_last_cursor_position = None
    /\ dom_cursor_shape \in CursorShapes
    /\ dom_content = <<>>
    /\ dom_call = "new" /\ dom_result = "Ok"

Dom_new == Dom_new_in(DomSizes)

\* DomBackend::size: what the backend reports to its caller.
DomBackend_size(size) == <<saturating_sub(size[1], 1), saturating_sub(size[2], 1)>>

\* A panic ends the program: no call follows it.
DomCalled(name, result) ==
    /\ calls < MaxDomCalls
    /\ dom_result # "Panic"
    /\ calls' = calls + 1
    /\ dom_call' = name
    /\ dom_result' = result

DomDrawCells ==
    { DefaultCell,
      NewCell("a", "Green", "Red", {}),
      NewCell("CJK", "Reset", "Reset", {}) }

DomContents ==
    UNION { [1..n -> [x : 0..(Width - 1), y : 0..(Height - 1), cell : DomDrawCells]]
            : n \in 0..MaxContent }

\* The loop of draw over the content: the element at y * width + x takes the
\* cell's symbol and style; after a fullwidth glyph the next element, if there
\* is one, is emptied.  Indexing cells out of range panics.
RECURSIVE write_content(_, _, _)
write_content(cells, width, content) ==
    IF content = <<>> THEN [cells |-> cells, result |-> "Ok"]
    ELSE LET item == Head(content)
             cell_position == item.y * width + item.x
             written == [cells EXCEPT ![cell_position + 1] =
                            Element(item.cell.symbol, get_cell_style_as_css(item.cell), None)]
             wide == SymbolLen(item.cell.symbol) > 1 /\ SymbolWidth(item.cell.symbol) = 2
         IN IF cell_position >= Len(cells) THEN [cells |-> cells, result |-> "Panic"]
            ELSE write_content(
                    IF wide /\ cell_position + 1 < Len(cells)
                    THEN [written EXCEPT ![cell_position + 2] =
                             Element("", get_cell_style_as_css(NewCell("", "Reset", "Reset", {})),
                                     None)]
                    ELSE written,
                    width, Tail(content))

\* The calls of draw that may return an error: reset_grid's, the append_child
\* of the grid to its parent, the create_element of populate's first line and
\* the set_attribute of the first cell written.
DomFailures == {"none", "reset_grid", "append_child", "populate", "set_attribute"}

\* draw: when not initialized, the flag is set, the cursor is forgotten, the
\* grid is rebuilt at the window's size if the document already holds it, it
\* is appended and populated; then the content is written.  A failing call
\* returns at once with what was done before it.
Dom_draw(content, fail) ==
    LET reinit == ~dom_initialized
        rebuild == reinit /\ dom_attached
        reset == rebuild /\ fail # "reset_grid"
        appended == reinit /\ fail \notin {"reset_grid", "append_child"}
        size == IF reset THEN dom_window_size ELSE dom_size
        base == IF reset THEN <<>> ELSE dom_cells
        cells == IF ~appended THEN base
                 ELSE IF fail = "populate" THEN populate(base, <<size[1], 1>>)
                 ELSE populate(base, size)
        first == Head(content).y * size[1] + Head(content).x
        w == IF fail \in {"reset_grid", "append_child", "populate"}
             THEN [cells |-> cells, result |-> "Err"]
             ELSE IF fail = "set_attribute"
             THEN [cells |-> [cells EXCEPT ![first + 1].html = Head(content).cell.symbol],
                   result |-> "Err"]
             ELSE write_content(cells, size[1], content)
    IN /\ fail = "reset_grid" => rebuild
       /\ fail = "append_child" => reinit
       /\ fail = "populate" => reinit /\ size[1] * size[2] > 0
       /\ fail = "set_attribute" => content # <<>> /\ first < Len(cells)
       /\ DomCalled("draw", w.result)
       /\ dom_initialized' = TRUE
       /\ dom_cursor_position' = IF reinit THEN None ELSE dom_cursor_position
       /\ dom_last_cursor_position' = IF reinit THEN None ELSE dom_last_cursor_position
       /\ dom_size' = size
       /\ dom_attached' = IF reinit THEN appended ELSE dom_attached
       /\ dom_cells' = w.cells
       /\ dom_content' = content
       /\ UNCHANGED <<dom_window_size, dom_cursor_shape, nonDomVars>>

\* flush does nothing.
Dom_flush ==
    /\ DomCalled("flush", "Ok")
    /\ UNCHANGED <<dom_initialized, dom_cells, dom_size, dom_window_size, dom_attached,
                   dom_cursor_position, dom_last_cursor_position, dom_cursor_shape,
                   dom_content, nonDomVars>>

\* The element a cursor position addresses, None when cells has no such index.
cursor_index(pos, width, cells) ==
    IF pos.y * width + pos.x < Len(cells) THEN Some(pos.y * width + pos.x + 1) ELSE None

\* hide_cursor: the text-decoration field of the cursor's element is removed.
Dom_hide_cursor ==
    LET at == IF IsSome(dom_cursor_position)
              THEN cursor_index(Unwrap(dom_cursor_position), dom_size[1], dom_cells)
              ELSE None
    IN /\ DomCalled("hide_cursor",
                    IF IsSome(dom_cursor_position) /\ ~IsSome(at) THEN "Panic" ELSE "Ok")
       /\ dom_cells' = IF IsSome(at)
                       THEN [dom_cells EXCEPT ![Unwrap(at)] =
                                update_css_field(get_css_attribute("None"), @)]
                       ELSE dom_cells
       /\ UNCHANGED <<dom_initialized, dom_size, dom_window_size, dom_attached,
                      dom_cursor_position, dom_last_cursor_position, dom_cursor_shape,
                      dom_content, nonDomVars>>

\* show_cursor: the field is removed at the last position, then set at the
\* current one.
Dom_show_cursor ==
    LET last == IF IsSome(dom_last_cursor_position)
                THEN cursor_index(Unwrap(dom_last_cursor_position), dom_size[1], dom_cells)
                ELSE None
        at == IF IsSome(dom_cursor_position)
              THEN cursor_index(Unwrap(dom_cursor_position), dom_size[1], dom_cells)
              ELSE None
        last_panics == IsSome(dom_last_cursor_position) /\ ~IsSome(last)
        at_panics == IsSome(dom_cursor_position) /\ ~IsSome(at)
        cleared == IF IsSome(last)
                   THEN [dom_cells EXCEPT ![Unwrap(last)] =
                            update_css_field(get_css_attribute("None"), @)]
                   ELSE dom_cells
    IN /\ DomCalled("show_cursor", IF last_panics \/ at_panics THEN "Panic" ELSE "Ok")
       /\ dom_cells' = IF last_panics THEN dom_cells
                       ELSE IF IsSome(at)
                       THEN [cleared EXCEPT ![Unwrap(at)] =
                                update_css_field(get_css_attribute(dom_cursor_shape), @)]
                       ELSE cleared
       /\ UNCHANGED <<dom_initialized, dom_size, dom_window_size, dom_attached,
                      dom_cursor_position, dom_last_cursor_position, dom_cursor_shape,
                      dom_content, nonDomVars>>

Dom_set_cursor_position(position) ==
    /\ DomCalled("set_cursor_position", "Ok")
    /\ dom_last_cursor_position' = dom_cursor_position
    /\ dom_cursor_position' = Some(position)
    /\ UNCHANGED <<dom_initialized, dom_cells, dom_size, dom_window_size, dom_attached,
                   dom_cursor_shape, dom_content, nonDomVars>>

\* clear returns Ok and touches nothing.
Dom_clear ==
    /\ DomCalled("clear", "Ok")
    /\ UNCHANGED <<dom_initialized, dom_cells, dom_size, dom_window_size, dom_attached,
                   dom_cursor_position, dom_last_cursor_position, dom_cursor_shape,
                   dom_content, nonDomVars>>

\* The closure of add_on_resize_listener, run when the window is resized.
Dom_on_resize(size) ==
    /\ DomCalled("on_resize", "Ok")
    /\ dom_window_size' = size
    /\ dom_initialized' = FALSE
    /\ UNCHANGED <<dom_cells, dom_size, dom_attached, dom_cursor_position,
                   dom_last_cursor_position, dom_cursor_shape, dom_content, nonDomVars>>

(***************************************************************************)
(* into_glyph_bits applied to a pair of modifiers and to their union.      *)
(***************************************************************************)
GlyphIdle == glyph_m1 = {} /\ glyph_m2 = {} /\ glyph_bits = None

ModifierFlags ==
    {"BOLD", "DIM", "ITALIC", "UNDERLINED", "SLOW_BLINK", "RAPID_BLINK", "REVERSED", "HIDDEN",
     "CROSSED_OUT"}

\* Every Modifier, and for the second operand the combinations of four flags.
Glyph_new ==
    /\ glyph_m1 \in SUBSET ModifierFlags
    /\ glyph_m2 \in SUBSET {"BOLD", "ITALIC", "UNDERLINED", "HIDDEN"}
    /\ glyph_bits = None

Glyph_pack ==
    /\ glyph_bits = None
    /\ glyph_bits' = Some([m1 |-> into_glyph_bits(Modifier_bits(glyph_m1)),
                           again |-> into_glyph_bits(Modifier_bits(glyph_m1)),
                           m2 |-> into_glyph_bits(Modifier_bits(glyph_m2)),
                           union |-> into_glyph_bits(Modifier_bits(glyph_m1 \cup glyph_m2))])
    /\ UNCHANGED <<glyph_m1, glyph_m2, nonGlyphVars>>

(***************************************************************************)
(* mouse_to_grid_coords (src/src/backend/event_callback.rs).  Its          *)
(* arithmetic is f64.  A finite f64 > 0 is held as its exponent e and the  *)
(* fraction f of its significand in three limbs of 18 bits: its value is   *)
(* (1 + (f[1] * 2^36 + f[2] * 2^18 + f[3]) / 2^54) * 2^e.  The significand *)
(* of an f64 has 52 fraction bits, so f[3] is a multiple of 4.  Zero has   *)
(* no limbs.  The operands stay below 2^12, which keeps every intermediate *)
(* value below 2^31.                                                       *)
(***************************************************************************)
Limb == 2 ^ 18

F64Zero == [e |-> 0, f |-> <<>>]

Max(a, b) == IF a >= b THEN a ELSE b
Min(a, b) == IF a <= b THEN a ELSE b

\* Round to nearest, ties to even: the exact value is (1 + f / 2^54) * 2^e
\* plus something below the last bit of f when sticky holds.
RoundF64(e, f, sticky) ==
    LET lsb == (f[3] \div 4) % 2
        guard == (f[3] \div 2) % 2
        rest == sticky \/ (f[3] % 2) = 1
        up == guard = 1 /\ (rest \/ lsb = 1)
        t3 == (f[3] \div 4) * 4 + (IF up THEN 4 ELSE 0)
        t2 == f[2] + (t3 \div Limb)
        t1 == f[1] + (t2 \div Limb)
    IN IF t1 \div Limb = 1 THEN [e |-> e + 1, f |-> <<0, 0, 0>>]
       ELSE [e |-> e, f |-> <<t1 % Limb, t2 % Limb, t3 % Limb>>]

\* Scale a / b by powers of two until 1 <= a / b < 2.
RECURSIVE Normalize(_, _, _)
Normalize(a, b, e) ==
    IF a < b THEN Normalize(2 * a, b, e - 1)
    ELSE IF a >= 2 * b THEN Normalize(a, 2 * b, e + 1)
    ELSE [a |-> a, b |-> b, e |-> e]

\* a / b in f64, for operands holding the integers a >= 0 and b > 0: long
\* division, 18 bits of the quotient at a time.
F64Div(a, b) ==
    IF a = 0 THEN F64Zero
    ELSE LET n == Normalize(a, b, 0)
             x1 == (n.a - n.b) * Limb
             x2 == (x1 % n.b) * Limb
             x3 == (x2 % n.b) * Limb
         IN RoundF64(n.e, <<x1 \div n.b, x2 \div n.b, x3 \div n.b>>, (x3 % n.b) # 0)

\* x * (g as f64) in f64, for a grid dimension g: the exact product limb by
\* limb, shifted right by the k bits its integer part gained, then rounded.
F64Mul(x, g) ==
    IF x.f = <<>> \/ g = 0 THEN F64Zero
    ELSE LET t3 == x.f[3] * g
             t2 == (x.f[2] * g) + (t3 \div Limb)
             t1 == (x.f[1] * g) + (t2 \div Limb)
             top == g + (t1 \div Limb)
             l1 == t1 % Limb
             l2 == t2 % Limb
             l3 == t3 % Limb
             k == CHOOSE i \in 0..13 : 2 ^ i <= top /\ top < 2 ^ (i + 1)
             K == 2 ^ k
             S == Limb \div K
         IN RoundF64(x.e + k,
                     <<((top - K) * S) + (l1 \div K),
                       ((l1 % K) * S) + (l2 \div K),
                       ((l2 % K) * S) + (l3 \div K)>>,
                     (l3 % K) # 0)

U16_MAX == 2 ^ 16 - 1

\* `x as u16`: truncation towards zero, saturating.
F64AsU16(x) ==
    IF x.f = <<>> \/ x.e < 0 THEN 0
    ELSE IF x.e >= 16 THEN U16_MAX
    ELSE (2 ^ x.e) + (x.f[1] \div (2 ^ (18 - x.e)))

mouse_to_grid_coords(event, rect, config) ==
    LET offset == IF IsSome(config.offset) THEN Unwrap(config.offset) ELSE 0
        relative_x == Max(event.client_x - rect.left - offset, 0)
        relative_y == Max(event.client_y - rect.top - offset, 0)
        drawable_width ==
            IF IsSome(config.cell_dimensions)
            THEN config.grid_width * Unwrap(config.cell_dimensions)[1]
            ELSE rect.width - 2 * offset
        drawable_height ==
            IF IsSome(config.cell_dimensions)
            THEN config.grid_height * Unwrap(config.cell_dimensions)[2]
            ELSE rect.height - 2 * offset
    IN IF drawable_width <= 0 \/ drawable_height <= 0 THEN <<0, 0>>
       ELSE LET col == F64AsU16(F64Mul(F64Div(relative_x, drawable_width),
                                       config.grid_width))
                row == F64AsU16(F64Mul(F64Div(relative_y, drawable_height),
                                       config.grid_height))
            IN <<Min(col, saturating_sub(config.grid_width, 1)),
                 Min(row, saturating_sub(config.grid_height, 1))>>

\* The inputs: grids, optional offset and cell dimensions, element rectangles
\* and pointer positions.
MouseGrids == {<<80, 24>>, <<22, 23>>}
MouseOffsets == {None, Some(5)}
MouseCellDimensions == {None, Some(<<10, 19>>)}
MouseRects == {[width |-> 0, height |-> 0, top |-> 0, left |-> 0],
               [width |-> 220, height |-> 437, top |-> 0, left |-> 0],
               [width |-> 800, height |-> 456, top |-> 3, left |-> 3]}
MouseClientXs == {0, 15, 150, 155, 799, 900}
MouseClientYs == {0, 38, 247, 252, 460}

MouseIdle ==
    /\ mouse_config = [grid_width |-> 0, grid_height |-> 0, offset |-> None,
                       cell_dimensions |-> None]
    /\ mouse_event = [client_x |-> 0, client_y |-> 0]
    /\ mouse_rect = [left |-> 0, top |-> 0, width |-> 0, height |-> 0]
    /\ mouse_coords = None

Mouse_new ==
    /\ \E g \in MouseGrids, o \in MouseOffsets, c \in MouseCellDimensions :
         mouse_config = [grid_width |-> g[1], grid_height |-> g[2], offset |-> o,
                         cell_dimensions |-> c]
    /\ \E x \in MouseClientXs, y \in MouseClientYs :
         mouse_event = [client_x |-> x, client_y |-> y]
    /\ mouse_rect \in MouseRects
    /\ mouse_coords = None

\* One mouse event is translated.
Mouse_to_grid ==
    /\ mouse_coords = None
    /\ mouse_coords' = Some(mouse_to_grid_coords(mouse_event, mouse_rect, mouse_config))
    /\ UNCHANGED <<mouse_config, mouse_event, mouse_rect, nonMouseVars>>

(***************************************************************************)
(* The user mouse handler of WebGl2Backend (impl WebEventHandler).  A      *)
(* TerminalMouseHandler holds its listeners on the canvas for as long as   *)
(* it lives; a callback is named by the number of the on_mouse_event call  *)
(* that registered it.                                                     *)
(***************************************************************************)
Handler_new ==
    /\ user_mouse_handler = None /\ canvas_listeners = {} /\ callbacks_invoked = <<>>
    /\ handler_count = 0 /\ handler_call = "new" /\ handler_result = "Ok"

\* The listeners of the backend's _hyperlink_mouse_handler, among those of the
\* callbacks, which are numbered from 1.
HyperlinkHandler == 0

\* Dropping a handler that takes every listener off the canvas.
drop_handler_drops_all(handler, listeners) ==
    IF IsSome(handler) THEN {} ELSE listeners

\* The TerminalMouseHandler of an Option is dropped: its listeners leave the canvas.
drop_handler(handler, listeners) ==
    IF IsSome(handler) THEN listeners \ {Unwrap(handler)} ELSE listeners

clear_mouse_events_keeps_handler(handler, listeners) ==
    [handler |-> None, listeners |-> listeners]

clear_mouse_events(handler, listeners) ==
    [handler |-> None, listeners |-> drop_handler(handler, listeners)]

\* on_mouse_event: the existing handler is cleared, a TerminalMouseHandler is
\* created for the callback (this can fail) and stored in the field, whose
\* previous value is dropped by the assignment.
WebGl2_on_mouse_event(fails) ==
    /\ handler_count < MaxHandlerCalls
    /\ handler_call' = "on_mouse_event"
    /\ handler_result' = IF fails THEN "Err" ELSE "Ok"
    /\ handler_count' = handler_count + 1
    /\ LET cleared == clear_mouse_events(user_mouse_handler, canvas_listeners)
           callback == handler_count + 1
       IN IF fails
          THEN /\ user_mouse_handler' = cleared.handler
               /\ canvas_listeners' = cleared.listeners
          ELSE /\ user_mouse_handler' = Some(callback)
               /\ canvas_listeners' =
                    drop_handler(cleared.handler, cleared.listeners \cup {callback})
    /\ callbacks_invoked' = <<>>
    /\ UNCHANGED nonHandlerVars

WebGl2_clear_mouse_events ==
    /\ handler_call # "clear_mouse_events"
    /\ handler_call' = "clear_mouse_events"
    /\ handler_result' = "Ok"
    /\ LET cleared == clear_mouse_events(user_mouse_handler, canvas_listeners)
       IN /\ user_mouse_handler' = cleared.handler
          /\ canvas_listeners' = cleared.listeners
    /\ callbacks_invoked' = <<>>
    /\ UNCHANGED <<handler_count, nonHandlerVars>>

MouseButtons == {0, 1, 2, 3, 4, 5}

beamterm_event_to_mouse_event(event) ==
    LET button == CASE event.button = 0 -> "Left"
                    [] event.button = 1 -> "Middle"
                    [] event.button = 2 -> "Right"
                    [] event.button = 3 -> "Back"
                    [] event.button = 4 -> "Forward"
                    [] OTHER -> "Unidentified"
        kind == CASE event.event_type = "MouseMove" -> <<"Moved">>
                  [] event.event_type = "MouseDown" -> <<"ButtonDown", button>>
                  [] event.event_type = "MouseUp" -> <<"ButtonUp", button>>
    IN [kind |-> kind, col |-> event.col, row |-> event.row]

RECURSIVE SetToSeq(_)
SetToSeq(set) ==
    IF set = {} THEN <<>>
    ELSE LET least == CHOOSE x \in set : \A y \in set : x <= y
         IN <<least>> \o SetToSeq(set \ {least})

\* A mouse event on the canvas: every handler with listeners attached converts
\* the event and runs its callback, in the order the listeners were attached.
WebGl2_user_mouse_event(event) ==
    /\ handler_call # "mouse_event"
    /\ handler_call' = "mouse_event"
    /\ handler_result' = "Ok"
    /\ callbacks_invoked' =
         [i \in 1..Cardinality(canvas_listeners) |->
            [callback |-> SetToSeq(canvas_listeners)[i],
             event |-> beamterm_event_to_mouse_event(event)]]
    /\ UNCHANGED <<user_mouse_handler, canvas_listeners, handler_count, nonHandlerVars>>

(***************************************************************************)
(* EventCallback (src/src/backend/event_callback.rs) and the resize        *)
(* listener of DomBackend.  A closure is named by the order of creation.   *)
(***************************************************************************)
KEY_EVENT_TYPES == <<"keydown">>

MOUSE_EVENT_TYPES ==
    <<"mousemove", "mousedown", "mouseup", "click", "dblclick", "mouseenter", "mouseleave">>

Listener_new ==
    /\ element_listeners = {} /\ event_callbacks = <<>> /\ closure_count = 0
    /\ window_onresize = None /\ dom_backends = {} /\ backend_count = 0

\* EventCallback::new: the closure is added as listener for each event type
\* in turn; when the addition number fail_at fails (0: none does) the
\* function returns the error and the closure is dropped with the listeners
\* added so far still on the element, no EventCallback having been built.
EventCallback_new(event_types, fail_at) ==
    /\ closure_count < MaxClosures
    /\ fail_at \in 0..Len(event_types)
    /\ closure_count' = closure_count + 1
    /\ LET closure == closure_count + 1
           added == IF fail_at = 0 THEN Len(event_types) ELSE fail_at - 1
       IN /\ element_listeners' =
               element_listeners \cup {<<event_types[i], closure>> : i \in 1..added}
          /\ event_callbacks' =
               Append(event_callbacks,
                      [event_types |-> event_types,
                       state |-> IF fail_at = 0 THEN "live" ELSE "never built"])
    /\ UNCHANGED <<window_onresize, dom_backends, backend_count, nonListenerVars>>

\* Drop for EventCallback: the closure is removed for each of the event types.
EventCallback_drop(listeners, closure, event_types) ==
    listeners \ {<<event_types[i], closure>> : i \in 1..Len(event_types)}

\* A live EventCallback is dropped.
EventCallback_dropped(closure) ==
    /\ closure \in 1..Len(event_callbacks)
    /\ event_callbacks[closure].state = "live"
    /\ element_listeners' =
         EventCallback_drop(element_listeners, closure, event_callbacks[closure].event_types)
    /\ event_callbacks' = [event_callbacks EXCEPT ![closure].state = "dropped"]
    /\ UNCHANGED <<closure_count, window_onresize, dom_backends, backend_count,
                   nonListenerVars>>

\* DomBackend::new_with_options, as far as listeners go: add_on_resize_listener
\* sets window.onresize to a closure of the backend's and forgets the closure.
DomBackend_add_on_resize_listener ==
    /\ backend_count < MaxBackends
    /\ backend_count' = backend_count + 1
    /\ dom_backends' = dom_backends \cup {backend_count + 1}
    /\ window_onresize' = Some(backend_count + 1)
    /\ UNCHANGED <<element_listeners, event_callbacks, closure_count, nonListenerVars>>

\* A DomBackend is discarded.  DomBackend has no Drop and none of its fields
\* holds the closure, so nothing else happens.
DomBackend_discarded(backend) ==
    /\ backend \in dom_backends
    /\ dom_backends' = dom_backends \ {backend}
    /\ UNCHANGED <<element_listeners, event_callbacks, closure_count, window_onresize,
                   backend_count, nonListenerVars>>

HandlerIdle ==
    /\ user_mouse_handler = None /\ canvas_listeners = {} /\ callbacks_invoked = <<>>
    /\ handler_count = 0 /\ handler_call = "none" /\ handler_result = "Ok"

ListenerIdle ==
    /\ element_listeners = {} /\ event_callbacks = <<>> /\ closure_count = 0
    /\ window_onresize = None /\ dom_backends = {} /\ backend_count = 0

EventIdle == MouseIdle /\ HandlerIdle /\ ListenerIdle

(***************************************************************************)
(* draw_symbols run against a 2D context.  The context keeps a drawing     *)
(* state (fill style, clipping region), a stack of saved drawing states    *)
(* and a current path; the clipping region is kept as the set of paths it  *)
(* is the intersection of.                                                 *)
(***************************************************************************)
MaxSymbols == 3

\* The context as the background pass leaves it: nothing saved, no clip.
FreshContext == [clip |-> {}, fill |-> "Black", path |-> {}, stack |-> <<>>]

\* One call on the context.
context_call(ctx, o) ==
    CASE o.op = "save" ->
            [ctx EXCEPT !.stack = Append(@, [fill |-> ctx.fill, clip |-> ctx.clip])]
      [] o.op = "restore" ->
            IF ctx.stack = <<>> THEN ctx
            ELSE [fill |-> ctx.stack[Len(ctx.stack)].fill,
                  clip |-> ctx.stack[Len(ctx.stack)].clip,
                  path |-> ctx.path,
                  stack |-> SubSeq(ctx.stack, 1, Len(ctx.stack) - 1)]
      [] o.op = "begin_path" -> [ctx EXCEPT !.path = {}]
      [] o.op = "rect" -> [ctx EXCEPT !.path = @ \cup {<<o.x, o.y, o.w, o.h>>}]
      [] o.op = "clip" -> [ctx EXCEPT !.clip = @ \cup {ctx.path}]
      [] o.op = "set_fill_style" -> [ctx EXCEPT !.fill = o.s]
      [] OTHER -> ctx

\* Cells of a row: a blank, ASCII glyphs of two colours, and glyphs outside
\* ASCII of the same two colours (one of them through REVERSED).
SymbolCells ==
    { DefaultCell,
      NewCell("a", "Green", "Red", {}),
      NewCell("b", "Red", "Reset", {}),
      NewCell("e'", "Green", "Reset", {}),
      NewCell("e'", "Green", "Red", {"REVERSED"}) }

FgIdle ==
    /\ fg_buffer = <<>> /\ fg_changed = <<>> /\ fg_clip = FALSE /\ fg_calls = <<>>
    /\ fg_call = None /\ fg_ctx = FreshContext /\ fg_state = "input"

\* A one-line buffer, its changed_cells and always_clip_cells.
Fg_new ==
    /\ \E n \in 1..MaxSymbols :
          /\ fg_buffer \in {<<line>> : line \in [1..n -> SymbolCells]}
          /\ fg_changed \in [1..n -> BOOLEAN]
    /\ fg_clip \in BOOLEAN
    /\ fg_calls = <<>> /\ fg_call = None /\ fg_ctx = FreshContext /\ fg_state = "input"

\* draw_symbols runs: these are the calls it makes, in order.
Fg_draw_symbols ==
    /\ fg_state = "input"
    /\ fg_state' = "drawing"
    /\ fg_calls' = draw_symbols(fg_buffer, fg_changed, fg_clip)
    /\ UNCHANGED <<fg_buffer, fg_changed, fg_clip, fg_call, fg_ctx, nonFgVars>>

\* The context takes the next call.
Fg_context_call ==
    /\ fg_state = "drawing" /\ fg_calls # <<>>
    /\ fg_ctx' = context_call(fg_ctx, Head(fg_calls))
    /\ fg_call' = Some(Head(fg_calls))
    /\ fg_calls' = Tail(fg_calls)
    /\ UNCHANGED <<fg_buffer, fg_changed, fg_clip, fg_state, nonFgVars>>

(***************************************************************************)
(* The element index of the DOM backend: (y * self.size.width + x) as      *)
(* usize, where x, y and width are u16.  The product and the sum are u16   *)
(* operations: a build with overflow checks panics when one of them        *)
(* exceeds u16::MAX, a build without them keeps the low 16 bits.           *)
(***************************************************************************)
cell_position(x, y, width, overflow_checks) ==
    LET product == y * width
        sum == (product % (U16_MAX + 1)) + x
    IN IF product > U16_MAX \/ sum > U16_MAX
       THEN IF overflow_checks THEN None ELSE Some(sum % (U16_MAX + 1))
       ELSE Some(sum)

\* Widths and heights of grids, all within u16.
AddrExtents == {1, 2, 256, 300}

AddrIdle ==
    /\ addr_size = <<0, 0>> /\ addr_pos = [x |-> 0, y |-> 0]
    /\ addr_overflow_checks = FALSE /\ addr_call = None

\* A grid and one of its cells.
Addr_new ==
    /\ addr_size \in AddrExtents \X AddrExtents
    /\ addr_pos \in [x : {0, 1, addr_size[1] - 1} \cap 0..(addr_size[1] - 1),
                      y : {0, 1, 218, addr_size[2] - 1} \cap 0..(addr_size[2] - 1)]
    /\ addr_overflow_checks \in BOOLEAN
    /\ addr_call = None

\* The index computed by draw for an incoming cell, by hide_cursor for the
\* cursor's position and by show_cursor for the last and current positions.
Addr_cell_position(name) ==
    /\ addr_call' = Some([name |-> name,
                          cell_position |-> cell_position(addr_pos.x, addr_pos.y, addr_size[1],
                                                          addr_overflow_checks)])
    /\ UNCHANGED <<addr_size, addr_pos, addr_overflow_checks, nonAddrVars>>

(***************************************************************************)
(* From<web_sys::WheelEvent> for MouseEvent (src/src/event.rs).  The f64   *)
(* deltas are held in tenths; i32 division truncates toward zero.          *)
(***************************************************************************)
Abs(n) == IF n < 0 THEN 0 - n ELSE n

TruncDiv(a, b) == IF a < 0 THEN 0 - (Abs(a) \div b) ELSE a \div b

DOM_DELTA_PIXEL == 0
DOM_DELTA_LINE == 1
DOM_DELTA_PAGE == 2

\* delta as i32: the fraction is dropped.
as_i32(tenths) == TruncDiv(tenths, 10)

\* The closure to_scroll_delta.
to_scroll_delta(delta_mode, delta) ==
    [unit |-> CASE delta_mode = DOM_DELTA_PIXEL -> "Pixels"
                [] delta_mode = DOM_DELTA_LINE -> "Lines"
                [] delta_mode = DOM_DELTA_PAGE -> "Pages"
                [] OTHER -> "Pixels",
     delta |-> as_i32(delta)]

\* ScrollDelta::to_steps.
to_steps(scroll) ==
    CASE scroll.unit = "Pixels" -> TruncDiv(scroll.delta, 100)
      [] scroll.unit = "Lines" -> scroll.delta
      [] scroll.unit = "Pages" -> scroll.delta * 10

\* The event kind of the conversion.
wheel_event_kind(delta_mode, delta_x, delta_y) ==
    LET scroll_x == to_scroll_delta(delta_mode, delta_x)
        scroll_y == to_scroll_delta(delta_mode, delta_y)
    IN IF Abs(to_steps(scroll_x)) > Abs(to_steps(scroll_y))
       THEN [kind |-> "ScrolledHorizontal", scroll |-> scroll_x]
       ELSE [kind |-> "ScrolledVertical", scroll |-> scroll_y]

\* The deltas of wheel events, in tenths: below and above one notch.
WheelDeltas == {-2500, -1000, -990, -15, 0, 5, 10, 20, 500, 990, 1000, 1500}

WheelIdle ==
    /\ wheel_delta_mode = 0 /\ wheel_delta_x = 0 /\ wheel_delta_y = 0 /\ wheel_event = None

Wheel_new ==
    /\ wheel_delta_mode \in {DOM_DELTA_PIXEL, DOM_DELTA_LINE, DOM_DELTA_PAGE, 3}
    /\ wheel_delta_x \in WheelDeltas
    /\ wheel_delta_y \in WheelDeltas
    /\ wheel_event = None

Wheel_from ==
    /\ wheel_event = None
    /\ wheel_event' = Some(wheel_event_kind(wheel_delta_mode, wheel_delta_x, wheel_delta_y))
    /\ UNCHANGED <<wheel_delta_mode, wheel_delta_x, wheel_delta_y, nonWheelVars>>

PureIdle == FgIdle /\ AddrIdle /\ WheelIdle

(***************************************************************************)
(* Specifications.                                                         *)
(***************************************************************************)
InitCanvas == Canvas_new /\ RowIdle /\ GlIdle /\ DomIdle /\ GlyphIdle /\ EventIdle /\ PureIdle /\ calls = 0

NextCanvas ==
    \/ \E content \in Contents : Canvas_draw(content)
    \/ Canvas_flush
    \/ Canvas_hide_cursor
    \/ \E p \in Positions : Canvas_set_cursor_position(p)
    \/ Canvas_clear(CanvasWindow)
    \/ \E color \in DebugColors : Canvas_set_debug_mode(color)

SpecCanvas == InitCanvas /\ [][NextCanvas]_vars

\* Positions a host may pass: those of the grid, one column past it and one
\* line past it.
HostPositions == { [x |-> x, y |-> y] : x \in 0..Width, y \in 0..Height }

\* Content within the grid, of one kind of cell.
GridContents ==
    {content \in Contents : \A i \in 1..Len(content) : content[i].cell.symbol = "b"}

\* The canvas backend with a cursor the host may place anywhere.
NextCanvasCursor ==
    \/ \E content \in GridContents : Canvas_draw(content)
    \/ \E content \in GridContents : Canvas_draw_panics(content)
    \/ Canvas_flush
    \/ Canvas_flush_panics
    \/ Canvas_hide_cursor
    \/ \E p \in HostPositions : Canvas_set_cursor_position(p)
    \/ \E name \in {"hide_cursor", "set_cursor_position"} : Canvas_cursor_panics(name)

SpecCanvasCursor == InitCanvas /\ [][NextCanvasCursor]_vars

\* Content whose column may lie at or past the end of its row.
GrowthContents ==
    UNION { [1..n -> [x : 0..(Width + 1), y : 0..(Height - 1), cell : {NewCell("a", "Green", "Red", {})}]]
            : n \in 0..MaxContent }

\* The canvas backend, without a cursor, drawing such content.
NextCanvasGrowth ==
    \/ \E content \in GrowthContents : Canvas_draw(content)
    \/ \E content \in GrowthContents : Canvas_draw_panics(content)
    \/ Canvas_flush
    \/ \E color \in DebugColors : Canvas_set_debug_mode(color)

SpecCanvasGrowth == InitCanvas /\ [][NextCanvasGrowth]_vars

\* The canvas backend in a window that need not be the canvas's size.
NextCanvasWindow ==
    \/ \E content \in Contents : Canvas_draw(content)
    \/ Canvas_flush
    \/ Canvas_flush_panics
    \/ Canvas_hide_cursor
    \/ \E p \in Positions : Canvas_set_cursor_position(p)
    \/ \E window \in WindowSizes : Canvas_clear(window)

SpecCanvasWindow == InitCanvas /\ [][NextCanvasWindow]_vars

InitRow == Row_new /\ CanvasIdle /\ GlIdle /\ DomIdle /\ GlyphIdle /\ EventIdle /\ PureIdle /\ calls = 0

NextRow == Row_changed_cell \/ Row_unchanged_cell \/ Row_end

SpecRow == InitRow /\ [][NextRow]_vars

\* The WebGl2 backend without a hyperlink callback and without measurements.
InitGl ==
    /\ WebGl2_new /\ ~gl_measure /\ ~gl_hyperlink_callback
    /\ CanvasIdle /\ RowIdle /\ DomIdle /\ GlyphIdle /\ EventIdle /\ PureIdle /\ calls = 0

NextGl ==
    \/ \E content \in GlContents, fails \in BOOLEAN : WebGl2_draw(content, fails)
    \/ \E fail \in {"none", "resize", "render_frame"} : WebGl2_flush(fail)
    \/ WebGl2_hide_cursor
    \/ \E p \in GlCursorPositions : WebGl2_set_cursor_position(p)
    \/ \E fails \in BOOLEAN : WebGl2_clear(fails)
    \/ \E size \in DisplaySizes : WebGl2_display_resized(size)

SpecGl == InitGl /\ [][NextGl]_vars

\* The WebGl2 backend with a hyperlink callback, under mouse events.
InitGlLinks ==
    /\ WebGl2_new /\ gl_hyperlink_callback /\ ~gl_measure /\ ~gl_selection
    /\ CanvasIdle /\ RowIdle /\ DomIdle /\ GlyphIdle /\ EventIdle /\ PureIdle /\ calls = 0

NextGlLinks ==
    \/ \E content \in GlContents : WebGl2_draw(content, FALSE)
    \/ \E fail \in {"none", "resize", "render_frame"} : WebGl2_flush(fail)
    \/ \E type \in {"MouseUp", "MouseMove", "MouseDown"}, button \in {0, 2},
          col \in 0..(Width - 1), row \in 0..(Height - 1) :
            WebGl2_hyperlink_mouse_event(type, button, col, row)
    \/ \E size \in DisplaySizes : WebGl2_display_resized(size)

SpecGlLinks == InitGlLinks /\ [][NextGlLinks]_vars

\* The WebGl2 backend with measure_performance enabled; the Performance API
\* may fail on any call.
InitGlPerf ==
    /\ WebGl2_new /\ gl_measure /\ ~gl_hyperlink_callback
    /\ CanvasIdle /\ RowIdle /\ DomIdle /\ GlyphIdle /\ EventIdle /\ PureIdle /\ calls = 0

SpecGlPerf == InitGlPerf /\ [][NextGl]_vars

\* The WebGl2 backend with a hyperlink callback and a cursor, under mouse
\* events and changes of the display size.
InitGlFrame ==
    /\ WebGl2_new /\ gl_hyperlink_callback /\ ~gl_measure /\ ~gl_selection
    /\ CanvasIdle /\ RowIdle /\ DomIdle /\ GlyphIdle /\ EventIdle /\ PureIdle /\ calls = 0

NextGlFrame ==
    \/ \E content \in GlContents : WebGl2_draw(content, FALSE)
    \/ \E fail \in {"none", "resize", "render_frame"} : WebGl2_flush(fail)
    \/ \E type \in {"MouseUp", "MouseMove"}, col \in 0..(Width - 1) :
          WebGl2_hyperlink_mouse_event(type, 0, col, 0)
    \/ \E p \in GlCursorPositions : WebGl2_set_cursor_position(p)
    \/ \E size \in DisplaySizes : WebGl2_display_resized(size)

SpecGlFrame == InitGlFrame /\ [][NextGlFrame]_vars

\* Frames, mouse moves and releases on a canvas whose display size stays.
NextGlHover ==
    \/ \E content \in GlContents : WebGl2_draw(content, FALSE)
    \/ \E fail \in {"none", "render_frame"} : WebGl2_flush(fail)
    \/ \E type \in {"MouseUp", "MouseMove"}, col \in 0..(Width - 1) :
          WebGl2_hyperlink_mouse_event(type, 0, col, 0)

SpecGlHover == InitGlFrame /\ [][NextGlHover]_vars

InitDom == Dom_new /\ CanvasIdle /\ RowIdle /\ GlIdle /\ GlyphIdle /\ EventIdle /\ PureIdle /\ calls = 0

NextDom ==
    \/ \E content \in DomContents : Dom_draw(content, "none")
    \/ Dom_flush
    \/ Dom_hide_cursor
    \/ Dom_show_cursor
    \/ \E p \in Positions : Dom_set_cursor_position(p)
    \/ Dom_clear
    \/ \E size \in DomSizes : Dom_on_resize(size)

SpecDom == InitDom /\ [][NextDom]_vars

\* The DOM backend with the calls of draw that may fail.
DomShortContents ==
    {content \in DomContents :
        Len(content) <= 1 /\ \A i \in 1..Len(content) : content[i].cell.symbol = "a"}

NextDomFallible ==
    \/ \E content \in DomShortContents, fail \in DomFailures : Dom_draw(content, fail)
    \/ \E size \in DomSizes : Dom_on_resize(size)

SpecDomFallible == InitDom /\ [][NextDomFallible]_vars

\* The DOM backend in a window of 3 x 3 cells that is resized, to a lower or
\* a narrower one among others.
ResizeSizes == {<<3, 3>>, <<3, 1>>, <<1, 3>>}

ResizeContents ==
    UNION { [1..n -> [x : 0..2, y : 0..2, cell : {NewCell("a", "Green", "Red", {})}]]
            : n \in 0..MaxContent }

InitDomResize ==
    /\ Dom_new_in({<<3, 3>>})
    /\ CanvasIdle /\ RowIdle /\ GlIdle /\ GlyphIdle /\ EventIdle /\ PureIdle /\ calls = 0

NextDomResize ==
    \/ \E content \in ResizeContents : Dom_draw(content, "none")
    \/ \E size \in ResizeSizes : Dom_on_resize(size)

SpecDomResize == InitDomResize /\ [][NextDomResize]_vars

InitGlyph ==
    Glyph_new /\ CanvasIdle /\ RowIdle /\ GlIdle /\ DomIdle /\ EventIdle /\ PureIdle /\ calls = 0

NextGlyph == Glyph_pack

SpecGlyph == InitGlyph /\ [][NextGlyph]_vars

InitMouse ==
    /\ Mouse_new /\ HandlerIdle /\ ListenerIdle
    /\ CanvasIdle /\ RowIdle /\ GlIdle /\ DomIdle /\ GlyphIdle /\ PureIdle /\ calls = 0

NextMouse == Mouse_to_grid

SpecMouse == InitMouse /\ [][NextMouse]_vars

InitHandler ==
    /\ Handler_new /\ MouseIdle /\ ListenerIdle
    /\ CanvasIdle /\ RowIdle /\ GlIdle /\ DomIdle /\ GlyphIdle /\ PureIdle /\ calls = 0

NextHandler ==
    \/ \E fails \in BOOLEAN : WebGl2_on_mouse_event(fails)
    \/ WebGl2_clear_mouse_events
    \/ \E type \in {"MouseMove", "MouseDown", "MouseUp"}, button \in MouseButtons,
          col \in 0..(Width - 1) :
         WebGl2_user_mouse_event([event_type |-> type, button |-> button, col |-> col,
                                  row |-> 0])

SpecHandler == InitHandler /\ [][NextHandler]_vars

\* A WebGl2 backend with a hyperlink callback, whose hyperlink mouse handler
\* listens on the canvas, and a host that registers and clears user handlers.
GlUrlContents ==
    {content \in GlContents : \A i \in 1..Len(content) : IsUrlCell(content[i].cell)}

InitGlHandler ==
    /\ WebGl2_new /\ gl_hyperlink_callback /\ ~gl_measure /\ ~gl_selection
    /\ user_mouse_handler = None /\ canvas_listeners = {HyperlinkHandler}
    /\ callbacks_invoked = <<>>
    /\ handler_count = 0 /\ handler_call = "new" /\ handler_result = "Ok"
    /\ MouseIdle /\ ListenerIdle
    /\ CanvasIdle /\ RowIdle /\ DomIdle /\ GlyphIdle /\ PureIdle /\ calls = 0

NextGlHandler ==
    \/ \E content \in GlUrlContents : WebGl2_draw(content, FALSE)
    \/ WebGl2_flush("none")
    \/ /\ HyperlinkHandler \in canvas_listeners
       /\ \E type \in {"MouseUp", "MouseMove"}, col \in 0..(Width - 1) :
             WebGl2_hyperlink_mouse_event(type, 0, col, 0)
    \/ \E fails \in BOOLEAN : WebGl2_on_mouse_event(fails)
    \/ WebGl2_clear_mouse_events

SpecGlHandler == InitGlHandler /\ [][NextGlHandler]_vars

InitListener ==
    /\ Listener_new /\ MouseIdle /\ HandlerIdle
    /\ CanvasIdle /\ RowIdle /\ GlIdle /\ DomIdle /\ GlyphIdle /\ PureIdle /\ calls = 0

NextListener ==
    \/ \E event_types \in {KEY_EVENT_TYPES, MOUSE_EVENT_TYPES}, fail_at \in 0..7 :
         EventCallback_new(event_types, fail_at)
    \/ \E closure \in 1..MaxClosures : EventCallback_dropped(closure)
    \/ DomBackend_add_on_resize_listener
    \/ \E backend \in 1..MaxBackends : DomBackend_discarded(backend)

SpecListener == InitListener /\ [][NextListener]_vars

(***************************************************************************)
(* Properties of the canvas backend.                                       *)
(***************************************************************************)
\* A step that is a call of CanvasBackend::flush, and one that returned Ok.
FlushStep == calls' = calls + 1 /\ cv_call' = "flush"
FlushOkStep == FlushStep /\ cv_result' = "Ok"

HasOp(ops, name) == \E i \in 1..Len(ops) : ops[i].op = name

\* C1: when flush resolves the changed cells of two grids of the same
\* dimensions, bit y*W + x is set iff the redraw is forced (the first flush)
\* or buffer[y][x] differs from prev_buffer[y][x]; forced, every bit is set.
C1_ChangeDetection ==
    [][ (FlushStep /\ HasOp(ctx_ops', "save")) =>
           \A p \in Positions :
              changed_cells'[p.y * Width + p.x + 1]
                 = (~initialized \/ buffer[p.y + 1][p.x + 1] # prev_buffer[p.y + 1][p.x + 1]) ]_vars

\* C1 witness: an unforced flush has flagged some cells and not others.
C1_Witness ==
    /\ cv_call = "flush" /\ cv_result = "Ok"
    /\ HasOp(ctx_ops, "save") /\ ~HasOp(ctx_ops, "clear_rect")
    /\ \E i, j \in 1..Len(changed_cells) : changed_cells[i] /\ ~changed_cells[j]

\* Region r covers column x.
Covers(r, x) == r.rect.x <= x /\ x < r.rect.x + r.rect.width

\* C2: when a row's background pass is over, every dirty cell lies in exactly
\* one emitted region, of the cell's own colour, no clean cell lies in any,
\* every region is one cell high on the row, and none is left pending.
C2_BackgroundCoversDirtyOnly ==
    row_done =>
        /\ \A x \in 0..(Len(row_colors) - 1) :
              LET over == { i \in 1..Len(row_emitted) : Covers(row_emitted[i], x) }
              IN IF row_dirty[x + 1]
                 THEN /\ Cardinality(over) = 1
                      /\ \A i \in over : row_emitted[i].color = row_colors[x + 1]
                 ELSE over = {}
        /\ \A i \in 1..Len(row_emitted) :
              /\ row_emitted[i].rect.y = row_y
              /\ row_emitted[i].rect.height = 1
              /\ row_emitted[i].rect.x + row_emitted[i].rect.width <= Len(row_colors)
        /\ pending_region = None

\* C2 witness: [A, clean, A] has been traversed and gave two regions.
C2_Witness ==
    /\ row_done
    /\ row_colors = <<"Red", "Red", "Red">>
    /\ row_dirty = <<TRUE, FALSE, TRUE>>
    /\ Len(row_emitted) = 2

\* First columns (1-based) of the maximal runs of equal colours.
RunStarts(colors) == { i \in 1..Len(colors) : i = 1 \/ colors[i] # colors[i - 1] }

\* Length of the maximal run starting at s.
RunLength(colors, s) ==
    LET later == { t \in RunStarts(colors) : t > s }
    IN (IF later = {} THEN Len(colors) + 1
        ELSE CHOOSE t \in later : \A t2 \in later : t <= t2) - s

\* C3: a gap-free row gives exactly one region per maximal run of equal
\* colours, in left-to-right order, each starting at its run's first column
\* with the run's length as width and height 1.
C3_OneRegionPerRun ==
    (row_done /\ \A x \in 1..Len(row_dirty) : row_dirty[x]) =>
        /\ Len(row_emitted) = Cardinality(RunStarts(row_colors))
        /\ \A k \in 1..Len(row_emitted) :
              LET r == row_emitted[k]
                  s == r.rect.x + 1
              IN /\ s \in RunStarts(row_colors)
                 /\ Cardinality({ t \in RunStarts(row_colors) : t <= s }) = k
                 /\ r.rect.width = RunLength(row_colors, s)
                 /\ r.rect.height = 1
                 /\ r.rect.y = row_y
                 /\ r.color = row_colors[s]

\* C3 witness: [A,A,B,B,A] gave width-2 A, width-2 B, width-1 A.
C3_Witness ==
    /\ row_done
    /\ row_colors = <<"Red", "Red", "Green", "Green", "Red">>
    /\ \A x \in 1..Len(row_dirty) : row_dirty[x]
    /\ row_emitted = << [rect |-> Rect_new(0, row_y, 2, 1), color |-> "Red"],
                        [rect |-> Rect_new(2, row_y, 2, 1), color |-> "Green"],
                        [rect |-> Rect_new(4, row_y, 1, 1), color |-> "Red"] >>

\* C4: after a flush that returned Ok, prev_buffer equals buffer.
C4_SnapshotAfterFlush ==
    (cv_call = "flush" /\ cv_result = "Ok") => prev_buffer = buffer

\* C4 witness: a later flush has drawn changes of a non-blank buffer.
C4_Witness ==
    /\ cv_call = "flush" /\ cv_result = "Ok"
    /\ Len(ctx_ops) > 0 /\ ctx_ops[1].op = "translate"
    /\ HasOp(ctx_ops, "fill_text")
    /\ buffer # get_sized_buffer(CanvasWindow)

DrawingOps == {"clear_rect", "translate", "fill_rect", "fill_text", "stroke_rect"}

\* C5: once initialized, a flush called while buffer = prev_buffer issues no
\* drawing call on the context.
C5_NoChangeNoDrawing ==
    [][ (FlushStep /\ initialized /\ buffer = prev_buffer) =>
           \A i \in 1..Len(ctx_ops') : ctx_ops'[i].op \notin DrawingOps ]_vars

\* C5 witness: a flush of an initialized backend with a non-blank, unchanged
\* buffer has issued nothing.
C5_Witness ==
    /\ cv_call = "flush" /\ cv_result = "Ok" /\ initialized
    /\ ctx_ops = <<>>
    /\ buffer = prev_buffer /\ buffer # get_sized_buffer(CanvasWindow)

\* C8: a flush that returns Err leaves prev_buffer and initialized as they were.
C8_FailedFlushKeepsSnapshot ==
    [][ (FlushStep /\ cv_result' = "Err") =>
           (prev_buffer' = prev_buffer /\ initialized' = initialized) ]_vars

\* C8 witness: a flush failed part-way (after a background rectangle was
\* filled) while the buffer differed from the snapshot.
C8_Witness ==
    /\ cv_call = "flush" /\ cv_result = "Err"
    /\ HasOp(ctx_ops, "fill_rect")
    /\ buffer # prev_buffer

\* The whole canvas is cleared before anything else is drawn.
ClearedFirst(ops) ==
    /\ Len(ops) > 0
    /\ ops[1] = Op("clear_rect", 0, 0, Width * CELL_WIDTH, Height * CELL_HEIGHT, "")

\* The bounding rectangle of the cell at p is stroked.
Stroked(ops, p) ==
    \E i \in 1..Len(ops) :
        ops[i] = Op("stroke_rect", p.x * CELL_WIDTH, p.y * CELL_HEIGHT, CELL_WIDTH, CELL_HEIGHT, "")

\* C9 as stated: the first flush and every flush made in debug mode clear the
\* canvas first, and in debug mode such a flush strokes every cell.
C9_ClearOnFirstAndDebug ==
    [][ (FlushOkStep /\ (~initialized \/ IsSome(debug_mode))) =>
           /\ ClearedFirst(ctx_ops')
           /\ IsSome(debug_mode) => \A p \in Positions : Stroked(ctx_ops', p) ]_vars

\* C9 amended: only the first flush clears the canvas (before anything else);
\* a later flush never does, in debug mode or not.  In debug mode every cell
\* is stroked on each flush that updates the grid (the first one, or one
\* finding buffer # prev_buffer); a flush with nothing changed draws nothing.
C9_ClearOnFirstOnly ==
    [][ FlushOkStep =>
           /\ ~initialized => ClearedFirst(ctx_ops')
           /\ initialized => ~HasOp(ctx_ops', "clear_rect")
           /\ (IsSome(debug_mode) /\ (~initialized \/ buffer # prev_buffer))
                 => \A p \in Positions : Stroked(ctx_ops', p)
           /\ (initialized /\ buffer = prev_buffer) => ctx_ops' = <<>> ]_vars

\* C9 witness: a later flush in debug mode has stroked the cells without
\* clearing the canvas.
C9_Witness ==
    /\ cv_call = "flush" /\ cv_result = "Ok" /\ IsSome(debug_mode)
    /\ HasOp(ctx_ops, "stroke_rect")
    /\ ~HasOp(ctx_ops, "clear_rect")

(***************************************************************************)
(* Properties of the WebGl2 backend.                                       *)
(***************************************************************************)
\* A step that is a call of WebGl2Backend::flush, and one that returned Ok.
GlFlushStep == calls' = calls + 1 /\ gl_call' = "flush"
GlFlushOkStep == GlFlushStep /\ gl_result' = "Ok"

CountOp(ops, name) == Cardinality({i \in 1..Len(ops) : ops[i].op = name})

\* C6 (as stated): a WebGl2 flush called when no cell was uploaded since the
\* previous flush issues no draw call (no render_frame) to the renderer.
C6_NoUpdateNoDraw ==
    [][GlFlushStep /\ gl_call = "flush" /\ ~gl_uploaded
        => CountOp(gl_renderer_calls', "render_frame") = 0]_vars

\* C6 (amended): a WebGl2 flush that returns Ok when no cell was uploaded
\* since the previous flush still issues exactly one render_frame; it uploads
\* no cell, and unless it resized the renderer it leaves the grid as it was.
C6_NoUpdateOneFrame ==
    [][GlFlushOkStep /\ ~gl_uploaded
        => /\ CountOp(gl_renderer_calls', "render_frame") = 1
           /\ CountOp(gl_renderer_calls', "update_cells") = 0
           /\ CountOp(gl_renderer_calls', "update_cells_by_position") = 0
           /\ (gl_display_size = gl_stored_size => gl_grid' = gl_grid)]_vars

\* A flush has just returned Ok, found nothing uploaded since the flush before
\* it, and presented a frame all the same.
C6_Witness ==
    /\ gl_call = "flush" /\ gl_result = "Ok" /\ ~gl_flushed_updates /\ calls >= 2
    /\ CountOp(gl_renderer_calls, "render_frame") = 1

\* The cell of a grid at a position.
GlCellAt(grid, pos) == grid[pos.y + 1][pos.x + 1]

\* C7: when flush returns Ok with a cursor position set, the grid cell at the
\* cursor has the style bits, foreground and background it had before the
\* flush, for every cursor shape; so consecutive flushes leave it unchanged.
C7_CursorCellRestored ==
    [][GlFlushOkStep /\ IsSome(gl_cursor_position)
        => LET pos == Unwrap(gl_cursor_position)
           IN InGrid(gl_grid, pos.x, pos.y) /\ InGrid(gl_grid', pos.x, pos.y)
                 => GlCellAt(gl_grid', pos) = GlCellAt(gl_grid, pos)]_vars

\* A flush has returned Ok with an underscore cursor on an underlined cell:
\* the frame was rendered with the cell's underline bit off, and the stored
\* cell has it on again.
C7_Witness ==
    /\ gl_call = "flush" /\ gl_result = "Ok" /\ gl_cursor_shape = "SteadyUnderScore"
    /\ IsSome(gl_cursor_position)
    /\ InGrid(gl_grid, Unwrap(gl_cursor_position).x, Unwrap(gl_cursor_position).y)
    /\ BitAnd(GlCellAt(gl_grid, Unwrap(gl_cursor_position)).style, GlyphEffect_Underline) # 0
    /\ \E i \in 1..Len(gl_renderer_calls) :
          /\ gl_renderer_calls[i].op = "render_frame"
          /\ BitAnd(GlCellAt(gl_renderer_calls[i].arg, Unwrap(gl_cursor_position)).style,
                    GlyphEffect_Underline) = 0

(***************************************************************************)
(* Properties of clear() across the backends.                              *)
(***************************************************************************)
AllCells(grid, blank) ==
    \A y \in 1..Len(grid) : \A x \in 1..Len(grid[y]) : grid[y][x] = blank

\* C10: after clear() returns Ok on the canvas, DOM or WebGl2 backend, every
\* cell of that backend's stored or presented grid is blank, whatever was
\* drawn before.
C10_ClearBlanks ==
    /\ (cv_call = "clear" /\ cv_result = "Ok") => AllCells(buffer, DefaultCell)
    /\ (gl_call = "clear" /\ gl_result = "Ok") => AllCells(gl_grid, BlankCellData)
    /\ (dom_call = "clear" /\ dom_result = "Ok")
          => \A i \in 1..Len(dom_cells) : dom_cells[i] = create_span(DefaultCell)

(***************************************************************************)
(* Properties of the canvas backend's cursor.                              *)
(***************************************************************************)
CellAt(buf, pos) == buf[pos.y + 1][pos.x + 1]

\* A step that moves a shown cursor away from its cell, or hides it.
CursorLeavesStep ==
    /\ calls' = calls + 1
    /\ cursor_shown
    /\ \/ cv_call' = "hide_cursor"
       \/ cv_call' = "set_cursor_position" /\ cursor_position' # cursor_position

\* C11: when set_cursor_position(p) moves a cursor shown at q # p, or
\* hide_cursor hides a cursor shown at q, the stored cell at q afterwards is
\* the cell the layout library last drew there, whatever its own modifiers.
C11_CursorCellRestored ==
    [][CursorLeavesStep
        => CellAt(buffer', Unwrap(cursor_position)) = CellAt(drawn, Unwrap(cursor_position))]_vars

\* C12: the cursor is never part of the diffed content: the stored buffer, the
\* one flush compares with prev_buffer, holds exactly what draw wrote from the
\* layout library, after any sequence of draw, set_cursor_position,
\* hide_cursor and flush.
C12_BufferHoldsOnlyDrawn == cv_call \in {"draw", "set_cursor_position", "hide_cursor", "flush"}
                               => buffer = drawn

(***************************************************************************)
(* Properties of the DOM backend.                                          *)
(***************************************************************************)
\* The elements whose style carries the cursor's CSS field.
CursorElements == {i \in 1..Len(dom_cells) : IsSome(dom_cells[i].text_decoration)}

\* C13: after any sequence of set_cursor_position and show_cursor calls the
\* cursor's CSS field is set on at most one cell element.
C13_AtMostOneCursorElement == Cardinality(CursorElements) <= 1

\* A step that is a call of DomBackend::draw that returned Ok.
DomDrawOkStep == calls' = calls + 1 /\ dom_call' = "draw" /\ dom_result' = "Ok"

\* The element a wide glyph's neighbour is reset to.
BlankedElement == Element("", get_cell_style_as_css(NewCell("", "Reset", "Reset", {})), None)

IsWide(cell) == SymbolWidth(cell.symbol) = 2

\* The index in cells of the element of cell (x, y) in a grid of width w.
ElementIndex(x, y, w) == y * w + x + 1

\* C14: after draw, for each incoming wide cell at (x, y) of the grid the
\* element of (x+1, y) is blanked, and when x is the last column of the row no
\* element is blanked: the first element of the next row is as it was.
C14_WideGlyphBlanksSameRow ==
    [][DomDrawOkStep
        => LET w == dom_size'[1]
               h == dom_size'[2]
               before == IF dom_initialized THEN dom_cells
                         ELSE [i \in 1..(w * h) |-> create_span(DefaultCell)]
           IN \A i \in 1..Len(dom_content') :
                 LET it == dom_content'[i]
                 IN (i = Len(dom_content') /\ IsWide(it.cell) /\ it.x < w /\ it.y < h)
                       => /\ it.x + 1 < w
                             => dom_cells'[ElementIndex(it.x + 1, it.y, w)] = BlankedElement
                          /\ (it.x + 1 = w /\ it.y + 1 < h)
                             => dom_cells'[ElementIndex(0, it.y + 1, w)]
                                   = before[ElementIndex(0, it.y + 1, w)]]_vars

(***************************************************************************)
(* Properties of into_glyph_bits.                                          *)
(***************************************************************************)
\* The bits the claim gives for a modifier: 10 bold, 11 italic, 13 underline,
\* 14 strikethrough, nothing else.
ExpectedGlyphBits(m) ==
    (IF "BOLD" \in m THEN 2 ^ 10 ELSE 0) + (IF "ITALIC" \in m THEN 2 ^ 11 ELSE 0)
    + (IF "UNDERLINED" \in m THEN 2 ^ 13 ELSE 0) + (IF "CROSSED_OUT" \in m THEN 2 ^ 14 ELSE 0)

\* C15: for every combination of modifier flags into_glyph_bits sets bit 10
\* iff BOLD, 11 iff ITALIC, 13 iff UNDERLINED, 14 iff CROSSED_OUT and no other
\* bit; packing twice gives the same bits, packing a union gives the OR of
\* the packings, and bold alone never sets the underline bit.
C15_GlyphBits ==
    IsSome(glyph_bits)
       => LET b == Unwrap(glyph_bits)
          IN /\ b.m1 = ExpectedGlyphBits(glyph_m1)
             /\ b.again = b.m1
             /\ b.union = BitOr(b.m1, b.m2)
             /\ glyph_m1 = {"BOLD"} => BitAnd(b.m1, 2 ^ 13) = 0

\* Bold, underline and the flags that contribute nothing, packed: bits 10
\* and 13 alone.
C15_Witness ==
    /\ glyph_m1 = {"BOLD", "UNDERLINED", "DIM", "REVERSED", "HIDDEN", "SLOW_BLINK", "RAPID_BLINK"}
    /\ glyph_m2 = {"ITALIC"}
    /\ IsSome(glyph_bits)
    /\ Unwrap(glyph_bits).m1 = 2 ^ 10 + 2 ^ 13
    /\ Unwrap(glyph_bits).union = 2 ^ 10 + 2 ^ 11 + 2 ^ 13

(***************************************************************************)
(* Properties of the WebGl2 backend's hyperlinks.                          *)
(***************************************************************************)
\* C16: with a hyperlink callback configured, every button-0 release over a
\* cell that is part of a url leads to exactly one invocation of the callback
\* with that url: once flush has processed the pending events, the callback
\* has been invoked once per such release, with the urls in order.
C16_OneCallbackPerRelease ==
    (gl_hyperlink_callback /\ gl_call = "flush") => gl_link_callbacks = gl_link_releases

(***************************************************************************)
(* Properties of mouse_to_grid_coords.                                     *)
(***************************************************************************)
\* The (col, row) of the stated formula, in exact arithmetic.
StatedCoords(event, rect, config) ==
    LET offset == IF IsSome(config.offset) THEN Unwrap(config.offset) ELSE 0
        relative_x == Max(event.client_x - rect.left - offset, 0)
        relative_y == Max(event.client_y - rect.top - offset, 0)
        drawable_width ==
            IF IsSome(config.cell_dimensions)
            THEN Unwrap(config.cell_dimensions)[1] * config.grid_width
            ELSE rect.width - 2 * offset
        drawable_height ==
            IF IsSome(config.cell_dimensions)
            THEN Unwrap(config.cell_dimensions)[2] * config.grid_height
            ELSE rect.height - 2 * offset
    IN IF drawable_width <= 0 \/ drawable_height <= 0 THEN <<0, 0>>
       ELSE <<Min((relative_x * config.grid_width) \div drawable_width,
                  config.grid_width - 1),
              Min((relative_y * config.grid_height) \div drawable_height,
                  config.grid_height - 1)>>

\* C18: mouse_to_grid_coords returns (0,0) if either drawable dimension is
\* <= 0, otherwise column = min(floor(relative.x * grid_width /
\* drawable_width), grid_width - 1) and row analogously.
C18_CoordsAsStated ==
    IsSome(mouse_coords) =>
        Unwrap(mouse_coords) = StatedCoords(mouse_event, mouse_rect, mouse_config)

\* The result of mouse_to_grid_coords lies in the grid.
MouseCoordsInGrid ==
    IsSome(mouse_coords) =>
        /\ Unwrap(mouse_coords)[1] \in 0..(mouse_config.grid_width - 1)
        /\ Unwrap(mouse_coords)[2] \in 0..(mouse_config.grid_height - 1)

DroppedCallbacksDetached ==
    \A closure \in 1..Len(event_callbacks) :
        event_callbacks[closure].state = "dropped" =>
            \A l \in element_listeners : l[2] # closure

\* C20: when a component that registered event listeners is discarded, every
\* listener it registered is removed: a dropped EventCallback has its closure
\* attached for none of its event types, and a discarded backend leaves no
\* listener registered, the window resize listener of DomBackend included.
C20_ListenersTornDown ==
    /\ DroppedCallbacksDetached
    /\ IsSome(window_onresize) => Unwrap(window_onresize) \in dom_backends

\* draw_symbols over one-line buffers, call by call on a fresh context.
InitSymbols ==
    /\ Fg_new
    /\ CanvasIdle /\ RowIdle /\ GlIdle /\ DomIdle /\ GlyphIdle /\ EventIdle /\ calls = 0
    /\ AddrIdle /\ WheelIdle

NextSymbols == Fg_draw_symbols \/ Fg_context_call

SpecSymbols == InitSymbols /\ [][NextSymbols]_vars

InitAddr ==
    /\ Addr_new
    /\ CanvasIdle /\ RowIdle /\ GlIdle /\ DomIdle /\ GlyphIdle /\ EventIdle /\ calls = 0
    /\ FgIdle /\ WheelIdle

NextAddr == \E name \in {"draw", "hide_cursor", "show_cursor"} : Addr_cell_position(name)

SpecAddr == InitAddr /\ [][NextAddr]_vars

InitWheel ==
    /\ Wheel_new
    /\ CanvasIdle /\ RowIdle /\ GlIdle /\ DomIdle /\ GlyphIdle /\ EventIdle /\ calls = 0
    /\ FgIdle /\ AddrIdle

NextWheel == Wheel_from

SpecWheel == InitWheel /\ [][NextWheel]_vars

(***************************************************************************)
(* Performance instrumentation.                                            *)
(***************************************************************************)
FlushFails == {"none", "resize", "render_frame"}

\* The draw just made is the draw a backend without measuring makes from the
\* same state and inputs; the inputs are read back from the step: the renderer
\* call made carries the cells given, the result tells whether it failed.
DrawAsUnmeasured ==
    \E cells \in {IF gl_renderer_calls' = <<>> THEN <<>> ELSE gl_renderer_calls'[1].arg} :
       \E d \in {WebGl2_draw_outcome(gl_grid, gl_selection, FALSE, cells,
                                     gl_result' = "Err")} :
          /\ gl_renderer_calls' = d.calls
          /\ gl_result' = d.result
          /\ gl_grid' = d.grid

FlushAsUnmeasured ==
    \E fail \in FlushFails :
       \E f \in {WebGl2_flush_outcome(gl_grid, gl_cursor_position, gl_cursor_shape, FALSE,
                                      gl_display_size, gl_stored_size, fail)} :
          /\ fail = "resize" => gl_display_size # gl_stored_size
          /\ gl_renderer_calls' = f.calls
          /\ gl_result' = f.result
          /\ gl_grid' = f.grid
          /\ gl_stored_size' = f.stored

\* C21: every draw and every flush of a backend that measures performance,
\* whatever the Performance API returns to it, makes the renderer calls,
\* leaves the grid and the stored size and returns the result that the same
\* call makes from the same state with measuring disabled.
C21_MeasuringIsObservational ==
    [][(calls' = calls + 1 /\ gl_measure) =>
          /\ gl_call' = "draw" => DrawAsUnmeasured
          /\ gl_call' = "flush" => FlushAsUnmeasured
          /\ gl_measure']_vars

\* A measured flush whose Performance calls failed, with a cursor shown, that
\* returned Ok.
C21_Witness ==
    /\ gl_measure /\ gl_call = "flush" /\ gl_result = "Ok"
    /\ Len(gl_perf_calls) = 2
    /\ gl_perf_results = <<"Err", "Err">>
    /\ IsSome(gl_cursor_position)
    /\ InGrid(gl_grid, Unwrap(gl_cursor_position).x, Unwrap(gl_cursor_position).y)

(***************************************************************************)
(* Canvas buffer dimensions.                                               *)
(***************************************************************************)
Dimensions(buf) == <<IF buf = <<>> THEN 0 ELSE Len(buf[1]), Len(buf)>>

\* C22: while the canvas backend runs, buffer and prev_buffer have the same
\* dimensions after a flush has returned, and changed_cells has one bit for
\* every cell of the current buffer, also after clear has replaced the buffer.
C22_CanvasDimensions ==
    cv_result # "Panic" =>
       /\ cv_call = "flush" => Dimensions(buffer) = Dimensions(prev_buffer)
       /\ Len(changed_cells) = Dimensions(buffer)[1] * Dimensions(buffer)[2]

(***************************************************************************)
(* The order of a WebGl2 flush.                                            *)
(***************************************************************************)
\* The grid the frame is rendered from: the stored one, resized when the
\* display size differs from the stored size.
FrameGrid ==
    IF gl_display_size # gl_stored_size THEN resize_grid(gl_grid, gl_display_size) ELSE gl_grid

\* C23: a flush that returns Ok makes exactly one render_frame call, and it
\* is the last renderer call of the flush: the url lookups of the hyperlink
\* processing come first, then the resize if there is one.  With a cursor
\* position inside the grid, the frame rendered holds the cursor cell in its
\* toggled style, and the grid left behind holds it untoggled again.
C23_FlushOrdering ==
    [][GlFlushOkStep =>
          LET cs == gl_renderer_calls'
              n == Len(cs)
          IN /\ CountOp(cs, "render_frame") = 1
             /\ cs[n].op = "render_frame"
             /\ \A i \in 1..(n - 1) : cs[i].op \in {"find_url_at", "resize"}
             /\ \A i \in 1..(n - 1) : \A j \in (i + 1)..(n - 1) :
                   ~(cs[i].op = "resize" /\ cs[j].op = "find_url_at")
             /\ IsSome(gl_cursor_position)
                   /\ InGrid(FrameGrid, Unwrap(gl_cursor_position).x, Unwrap(gl_cursor_position).y)
                => LET pos == Unwrap(gl_cursor_position)
                   IN /\ GlCellAt(cs[n].arg, pos)
                            = GlCellAt(WebGl2_draw_cursor(FrameGrid, pos, gl_cursor_shape), pos)
                      /\ GlCellAt(gl_grid', pos) = GlCellAt(FrameGrid, pos)]_vars

\* A flush has returned Ok after a url lookup and a resize, with a block
\* cursor on a cell whose colours differ: the frame was rendered with the
\* cell's colours flipped and the stored cell has them back.
C23_Witness ==
    /\ gl_call = "flush" /\ gl_result = "Ok" /\ gl_cursor_shape = "SteadyBlock"
    /\ Len(gl_renderer_calls) = 3
    /\ gl_renderer_calls[1].op = "find_url_at"
    /\ gl_renderer_calls[2].op = "resize"
    /\ gl_renderer_calls[3].op = "render_frame"
    /\ IsSome(gl_cursor_position)
    /\ InGrid(gl_grid, Unwrap(gl_cursor_position).x, Unwrap(gl_cursor_position).y)
    /\ GlCellAt(gl_renderer_calls[3].arg, Unwrap(gl_cursor_position))
          # GlCellAt(gl_grid, Unwrap(gl_cursor_position))

(***************************************************************************)
(* The canvas's foreground pass.                                           *)
(***************************************************************************)
\* The glyph draws of the foreground pass among a grid update's calls.  The
\* cursor pass's underscore is the one fill_text that follows a save directly;
\* a glyph of the foreground pass follows a style or another glyph.
GlyphDraws(ops) == {i \in 1..Len(ops) : ops[i].op = "fill_text" /\ ops[i - 1].op # "save"}

\* The glyph draws made at the pixel origin of the cell at column x, row y.
GlyphDrawsAt(ops, x, y) ==
    {i \in GlyphDraws(ops) : ops[i].x = x * CELL_WIDTH /\ ops[i].y = y * CELL_HEIGHT}

\* A flush has run a grid update to its end.
GridUpdateStep == FlushOkStep /\ ctx_ops' # <<>>

\* C24: in a grid update the foreground pass draws the glyph of every changed
\* cell whose symbol is not a space exactly once, at the cell's pixel origin,
\* draws nothing for an unchanged cell or a space, and makes every glyph draw
\* after the update's last background fill.
C24_ForegroundPass ==
    [][GridUpdateStep =>
          /\ \A y \in 0..(Len(buffer) - 1) : \A x \in 0..(Len(buffer[y + 1]) - 1) :
                LET cell == buffer[y + 1][x + 1]
                    dirty == changed_cells'[(y * Len(buffer[1])) + x + 1]
                    at == GlyphDrawsAt(ctx_ops', x, y)
                IN IF dirty /\ cell.symbol # " "
                   THEN Cardinality(at) = 1 /\ \A i \in at : ctx_ops'[i].s = cell.symbol
                   ELSE at = {}
          /\ \A i \in GlyphDraws(ctx_ops') :
                \E y \in 0..(Len(buffer) - 1) : \E x \in 0..(Len(buffer[y + 1]) - 1) :
                   i \in GlyphDrawsAt(ctx_ops', x, y)
          /\ \A i \in GlyphDraws(ctx_ops') : \A j \in 1..Len(ctx_ops') :
                ctx_ops'[j].op = "fill_rect" => j < i]_vars

\* A later flush has drawn the glyph of the one changed cell and left the
\* glyph of an unchanged, non-blank cell alone.
C24_Witness ==
    /\ cv_call = "flush" /\ cv_result = "Ok" /\ initialized
    /\ Cardinality(GlyphDraws(ctx_ops)) = 1
    /\ HasOp(ctx_ops, "fill_rect")
    /\ \E y \in 0..(Height - 1) : \E x \in 0..(Width - 1) :
          /\ ~changed_cells[(y * Width) + x + 1]
          /\ buffer[y + 1][x + 1].symbol # " "

(***************************************************************************)
(* The context's state at each glyph of the foreground pass.               *)
(***************************************************************************)
\* The cell whose pixel origin a call is made at.
FgCellAt(o) == fg_buffer[(o.y \div CELL_HEIGHT) + 1][(o.x \div CELL_WIDTH) + 1]

\* The path that is the rectangle of the cell a call is made at.
FgCellPath(o) == {<<o.x, o.y, CELL_WIDTH, CELL_HEIGHT>>}

FgClipped(cell) == fg_clip \/ ~IsAscii(cell.symbol)

\* C25: when the context has just taken a fill_text of the foreground pass,
\* its fill style is the cell's resolved foreground colour, and its clipping
\* region is the cell's rectangle alone when the glyph is outside ASCII or
\* always_clip_cells is set, and unrestricted otherwise.
C25_ForegroundState ==
    (IsSome(fg_call) /\ Unwrap(fg_call).op = "fill_text") =>
       LET o == Unwrap(fg_call)
           cell == FgCellAt(o)
       IN /\ fg_ctx.fill = get_canvas_color(actual_fg_color(cell), "White")
          /\ fg_ctx.clip = IF FgClipped(cell) THEN {FgCellPath(o)} ELSE {}

\* The glyph of an ASCII cell has just been drawn, unclipped, right after the
\* clipped glyph of the cell before it, in the colour that cell had too.
C25_Witness ==
    /\ ~fg_clip /\ IsSome(fg_call) /\ Unwrap(fg_call).op = "fill_text"
    /\ Unwrap(fg_call).x >= 2 * CELL_WIDTH
    /\ fg_ctx.clip = {}
    /\ LET x == Unwrap(fg_call).x \div CELL_WIDTH
       IN /\ fg_changed[x] /\ ~IsAscii(fg_buffer[1][x].symbol)
          /\ fg_changed[x - 1] /\ IsAscii(fg_buffer[1][x - 1].symbol)
          /\ actual_fg_color(fg_buffer[1][x - 1]) = actual_fg_color(fg_buffer[1][x + 1])
          /\ actual_fg_color(fg_buffer[1][x]) # actual_fg_color(fg_buffer[1][x + 1])

\* A step that is a call of DomBackend::draw.
DomDrawStep == calls' = calls + 1 /\ dom_call' = "draw"

\* C26: after every draw that returns Ok the number of cell elements is
\* width * height of the grid's size; a draw rebuilds the elements only when
\* the initialized flag is false, and every draw leaves the flag true.
C26_DomMaterialization ==
    [][/\ DomDrawOkStep => Len(dom_cells') = dom_size'[1] * dom_size'[2]
       /\ DomDrawStep /\ dom_initialized
              => Len(dom_cells') = Len(dom_cells) /\ dom_size' = dom_size
       /\ DomDrawStep => dom_initialized']_vars

\* C27: the element index computed in draw, show_cursor and hide_cursor for
\* the cell at column x, row y of a grid whose width and height fit in 16
\* bits is y * width + x as unbounded integers: no wrap-around, no overflow
\* failure.
C27_ElementIndex ==
    IsSome(addr_call)
    => Unwrap(addr_call).cell_position = Some(addr_pos.y * addr_size[1] + addr_pos.x)

\* C30: the event kind is ScrolledHorizontal when the horizontal delta is
\* larger in magnitude than the vertical one and ScrolledVertical otherwise,
\* for every pair of deltas, those below one wheel notch included.
C30_WheelKind ==
    IsSome(wheel_event)
    => Unwrap(wheel_event).kind = IF Abs(wheel_delta_x) > Abs(wheel_delta_y)
                                  THEN "ScrolledHorizontal"
                                  ELSE "ScrolledVertical"

(***************************************************************************)
(* Resize handling and hover styling of the WebGl2 backend.                *)
(***************************************************************************)
\* The hover cell waiting for the next flush, if there is one.
PendingHover == IF IsSome(gl_hyperlink_state) THEN Unwrap(gl_hyperlink_state).hover ELSE None

\* The 'over a hyperlink' result for the pending hover cell.
HoverResult ==
    IsSome(find_url_at(gl_grid, Unwrap(PendingHover)[1], Unwrap(PendingHover)[2]))

\* cursor_over_hyperlink as the hover processing of a flush leaves it.
FlagAfterHover == IF IsSome(PendingHover) THEN HoverResult ELSE gl_cursor_over_hyperlink

\* C28: in a flush that renders a frame, when the display size differs from
\* the stored size the renderer is resized once, to the display size, before
\* render_frame, and cursor_over_hyperlink is false afterwards; when the sizes
\* are equal there is no resize and the flag is as the flush's hover
\* processing left it (its old value when no hover is pending).
C28_ResizeHandling ==
    [][GlFlushStep /\ CountOp(gl_renderer_calls', "render_frame") > 0 =>
          LET cs == gl_renderer_calls'
          IN IF gl_display_size # gl_stored_size
             THEN /\ CountOp(cs, "resize") = 1
                  /\ \E i \in 1..Len(cs) :
                        /\ cs[i] = RCall("resize", gl_display_size)
                        /\ \A j \in 1..Len(cs) : cs[j].op = "render_frame" => i < j
                  /\ gl_stored_size' = gl_display_size
                  /\ gl_cursor_over_hyperlink' = FALSE
             ELSE /\ CountOp(cs, "resize") = 0
                  /\ gl_stored_size' = gl_stored_size
                  /\ gl_cursor_over_hyperlink' = FlagAfterHover]_vars

\* A flush has resized the renderer and rendered the frame while the canvas
\* showed the pointer cursor: the flag was true and is reset.
C28_Witness ==
    /\ gl_call = "flush" /\ gl_result = "Ok"
    /\ CountOp(gl_renderer_calls, "resize") = 1
    /\ gl_canvas_cursor = "pointer"
    /\ ~gl_cursor_over_hyperlink

\* C29: a flush writes the canvas's cursor style iff a hover cell is pending
\* and its 'over a hyperlink' result differs from cursor_over_hyperlink, and
\* what it writes is the style of that result; the flag then holds the
\* result, so that a flush coming straight after a flush writes nothing.
C29_HoverStyleOnTransitions ==
    [][GlFlushStep =>
          /\ gl_style_writes' # <<>>
                <=> (IsSome(PendingHover) /\ HoverResult # gl_cursor_over_hyperlink)
          /\ gl_style_writes' # <<>>
                => gl_style_writes' = <<IF HoverResult THEN "pointer" ELSE "default">>
          /\ IsSome(PendingHover) => gl_cursor_over_hyperlink' = HoverResult
          /\ gl_call = "flush" => gl_style_writes' = <<>>]_vars

\* A flush found the hover cell still over the hyperlink that an earlier
\* flush had styled with the pointer, and wrote nothing.
C29_Witness ==
    /\ gl_call = "flush" /\ gl_style_writes = <<>>
    /\ IsSome(PendingHover) /\ HoverResult
    /\ gl_canvas_cursor = "pointer" /\ gl_cursor_over_hyperlink

(***************************************************************************)
(* Exit paths of flush and update_grid.                                    *)
(***************************************************************************)
\* C31: when flush returns, with Ok or with an error, the grid cell at the
\* cursor position has the style and colours it had before the flush.
C31_CursorCellRestoredOnEveryExit ==
    [][GlFlushStep /\ IsSome(gl_cursor_position)
        => LET pos == Unwrap(gl_cursor_position)
           IN InGrid(gl_grid, pos.x, pos.y) /\ InGrid(gl_grid', pos.x, pos.y)
                 => GlCellAt(gl_grid', pos) = GlCellAt(gl_grid, pos)]_vars

\* The context calls of a flush that took effect: all but the one that failed.
EffectiveOps(ops, result) == IF result = "Err" THEN SubSeq(ops, 1, Len(ops) - 1) ELSE ops

CountCalls(ops, name) == Cardinality({i \in 1..Len(ops) : ops[i].op = name})

\* The translation the calls leave on the context, along each axis.
NetTranslation(ops) ==
    TRANSLATE * (Cardinality({i \in 1..Len(ops) : ops[i].op = "translate" /\ ops[i].x > 0})
                 - Cardinality({i \in 1..Len(ops) : ops[i].op = "translate" /\ ops[i].x < 0}))

\* The saved states the calls leave on the context's stack.
SaveDepth(ops) == CountCalls(ops, "save") - CountCalls(ops, "restore")

\* C32: when flush returns, with Ok or with an error, its update_grid has
\* left the context's translation and the depth of its save stack as they
\* were: the (+5, +5) translation is undone and every save is restored.
C32_ContextRestoredOnEveryExit ==
    [][FlushStep /\ cv_result' # "Panic"
        => LET ops == EffectiveOps(ctx_ops', cv_result')
           IN NetTranslation(ops) = 0 /\ SaveDepth(ops) = 0]_vars

(***************************************************************************)
(* Index bounds of the canvas backend.                                     *)
(***************************************************************************)
\* C33: whatever positions the host passes to set_cursor_position, those
\* outside the grid included, no later draw, flush, hide_cursor or
\* set_cursor_position indexes outside the buffer.
C33_CursorBoundsSafety ==
    cv_call \in {"draw", "flush", "hide_cursor", "set_cursor_position"} => cv_result # "Panic"

\* A step that is a call of CanvasBackend::draw.
DrawStep == calls' = calls + 1 /\ cv_call' = "draw"

\* C34: draw of a cell whose column is at or past the end of its row, with
\* no cursor set, returns without an out-of-range access and the cell is
\* stored at that column of the row.
C34_RowGrowth ==
    [][\A content \in GrowthContents :
          DrawStep /\ (Canvas_draw(content) \/ Canvas_draw_panics(content))
          => /\ cv_result' = "Ok"
             /\ \A i \in 1..Len(content) :
                   \E j \in i..Len(content) :
                      /\ content[j].x = content[i].x /\ content[j].y = content[i].y
                      /\ buffer'[content[j].y + 1][content[j].x + 1] = content[j].cell]_vars

(***************************************************************************)
(* The DOM backend across a resize, and its cursor.                        *)
(***************************************************************************)
\* C35: a draw whose incoming cells all lie within the size() the backend
\* reports when the draw is called indexes no element outside the element
\* array, also when the draw rebuilds the grid after a resize notification.
C35_DrawWithinReportedSize ==
    [][(/\ DomDrawStep
        /\ \A i \in 1..Len(dom_content') :
              /\ dom_content'[i].x < DomBackend_size(dom_size)[1]
              /\ dom_content'[i].y < DomBackend_size(dom_size)[2])
       => dom_result' # "Panic"]_vars

\* C36: after hide_cursor returns, no cell element carries the cursor's CSS
\* field, whatever set_cursor_position and show_cursor calls came before.
C36_HideCursorClearsField ==
    dom_call = "hide_cursor" /\ dom_result = "Ok" => CursorElements = {}

(***************************************************************************)
(* Hyperlink state of the WebGl2 backend.                                  *)
(***************************************************************************)
\* C37: in every state reached by mouse moves, flushes and canvas resizes
\* the canvas's CSS cursor is 'pointer' exactly when cursor_over_hyperlink
\* is true.
C37_HoverStateConsistent == (gl_canvas_cursor = "pointer") <=> gl_cursor_over_hyperlink

\* The release waiting for the next flush, if there is one.
PendingClick == IF IsSome(gl_hyperlink_state) THEN Unwrap(gl_hyperlink_state).click ELSE None

\* C38: a flush leaves no pending click behind and invokes the callback at
\* most once, only for a click that was pending over a url; a flush that
\* finds no pending click invokes no callback; the pending hover position is
\* the same after the flush as before it.
C38_ClickConsumedOnce ==
    [][GlFlushStep /\ IsSome(gl_hyperlink_state) =>
          /\ IsSome(gl_hyperlink_state') /\ ~IsSome(Unwrap(gl_hyperlink_state').click)
          /\ Unwrap(gl_hyperlink_state').hover = PendingHover
          /\ Len(gl_callback_urls') <= 1
          /\ gl_callback_urls' # <<>>
                => /\ IsSome(PendingClick)
                   /\ IsSome(find_url_at(gl_grid, Unwrap(PendingClick)[1], Unwrap(PendingClick)[2]))
          /\ ~IsSome(PendingClick) => gl_callback_urls' = <<>>]_vars

\* A flush has handed a click over a url to the callback: the pending click
\* is empty and the hover position recorded before it is still there.
C38_Witness ==
    /\ gl_call = "flush" /\ Len(gl_callback_urls) = 1
    /\ ~IsSome(PendingClick) /\ IsSome(PendingHover)

\* A step that is a call of on_mouse_event or clear_mouse_events.
UserHandlerStep ==
    /\ handler_call' \in {"on_mouse_event", "clear_mouse_events"}
    /\ <<handler_call, handler_count>>' # <<handler_call, handler_count>>

\* C39: on_mouse_event and clear_mouse_events leave the pending hyperlink
\* state, the hyperlink callback, cursor_over_hyperlink and the listeners of
\* the hyperlink mouse handler as they are, and of the other listeners keep
\* at most the new user handler's; after any number of them a flush still
\* hands a pending click over a url to the hyperlink callback.
C39_UserHandlerOnly ==
    [][/\ UserHandlerStep
            => /\ UNCHANGED <<gl_hyperlink_state, gl_hyperlink_callback,
                               gl_cursor_over_hyperlink, gl_canvas_cursor>>
               /\ HyperlinkHandler \in canvas_listeners'
               /\ canvas_listeners' \ {HyperlinkHandler}
                     = IF IsSome(user_mouse_handler')
                       THEN {Unwrap(user_mouse_handler')} ELSE {}
       /\ (/\ GlFlushStep /\ IsSome(PendingClick)
           /\ IsSome(find_url_at(gl_grid, Unwrap(PendingClick)[1], Unwrap(PendingClick)[2])))
            => gl_callback_urls'
                 = <<Unwrap(find_url_at(gl_grid, Unwrap(PendingClick)[1],
                                        Unwrap(PendingClick)[2])).url>>]_vars

\* After a user handler was registered and another cleared, a flush has
\* handed a click to the hyperlink callback.
C39_Witness ==
    /\ handler_count > 0 /\ handler_call = "clear_mouse_events"
    /\ gl_call = "flush" /\ Len(gl_callback_urls) = 1
    /\ HyperlinkHandler \in canvas_listeners

\* C40: EventCallback::new is all-or-nothing: a call in which the addition of
\* a listener failed leaves its closure attached to the element for none of
\* the event types.
C40_NewAllOrNothing ==
    \A closure \in 1..Len(event_callbacks) :
        event_callbacks[closure].state = "never built" =>
            \A l \in element_listeners : l[2] # closure

====
